---- MODULE Spec2Model ----
(***************************************************************************)
(* Verification model of the hms-firetv gateway's concurrency primitives:  *)
(*   - BackgroundLogger   (include/utils/BackgroundLogger.h)               *)
(*   - LRUCache           (include/utils/LRUCache.h)                       *)
(*   - ConnectionPool     (include/services/ConnectionPool.h)              *)
(*   - the per-device LightningClient caches of CommandController,         *)
(*     CommandHandler and PairingController                                *)
(* Each component has its own specification (LoggerSpec, CacheSpec,        *)
(* PoolSpec, ClientsSpec); the variables of the other components are held  *)
(* at a fixed value while one component runs.                              *)
(***************************************************************************)
EXTENDS Integers, Sequences, FiniteSets, TLC

(***************************************************************************)
(* Bounds of the model                                                     *)
(***************************************************************************)
\* number of enqueue() calls explored
MaxTasks == 3
\* max_queue_size_ is drawn from 0..MaxQueueSize
MaxQueueSize == 2

\* LRUCache: max_size_ is drawn from 0..MaxCap, ttl_ from 0..MaxTtl, the steady clock
\* runs from 0 to MaxTime
MaxCap == 2
MaxTtl == 2
MaxTime == 3

\* ConnectionPool: pool_size_ is drawn from 1..MaxPool, max_wait_ms_ from 0..MaxWait,
\* the steady clock runs from 0 to PoolMaxTime
MaxPool == 2
MaxWait == 1
PoolMaxTime == 2

\* the system clock runs from 0 to MaxWall; a PIN lives PinLifetime ticks (5 minutes)
MaxWall == 2
PinLifetime == 1

\* the hours local time may be ahead of UTC
TzOffsets == {-1, 0, 1}

\* the commands of the two transports
HttpCommands == {"media", "volume", "app", "text"}
MqttCommands == {"media_play", "volume_up", "turn_on", "turn_off", "navigate",
                 "launch_app", "send_text", "unknown"}

\* the stored devices and the values their rows and clients take
Devices == {"tv1"}
Addresses == {"ipA", "ipB"}
ApiKeys == {"keyA", "keyB"}
Tokens == {"tokA", "tokB"}

\* the threads that call acquire()
Callers == {"t1", "t2", "t3"}

\* the threads that call enqueue()
Enqueuers == {"e1", "e2"}

\* LRUCache<K, V>: the keys and values used
Keys == {"k1", "k2", "k3"}
Values == {"v1", "v2"}

VARIABLES
    \* ---- BackgroundLogger fields ----
    max_queue_size_,   \* size_t max_queue_size_
    running_,          \* std::atomic<bool> running_
    dropped_count_,    \* std::atomic<size_t> dropped_count_
    queue_,            \* std::queue<LogTask> queue_ (task ids, front first)
    mutex_,            \* TRUE while the worker thread holds mutex_
    workerPc,          \* position of the worker thread in workerLoop()
    curTask,           \* the task the worker popped and is running (0: none)
    enqPc,             \* per enqueuer: "idle" or "notify" (pushed, cv_.notify_one() pending)
    ctlPc,             \* position of the controlling thread in stop()
    \* ---- BackgroundLogger history (not program state) ----
    nextId,            \* id of the next task handed to enqueue()
    throwing,          \* ids of the tasks that throw when run
    accepted,          \* ids for which enqueue returned true, in acceptance order
    rejected,          \* ids for which enqueue returned false
    executed,          \* ids of the tasks the worker ran, in completion order
    lastEnq,           \* what the last enqueue() call saw and did
    atStop,            \* the tasks accepted when the running stop() was called
    lastStop,          \* what the last returned stop() call left behind
    \* ---- LRUCache fields ----
    max_size_,         \* size_t max_size_
    ttl_,              \* std::chrono::seconds ttl_
    lru_list_,         \* std::list<K> lru_list_, front = most recently used
    cache_map_,        \* std::unordered_map<K, CacheEntry>: key -> [value, expiry_time]
    cnow,              \* Clock::now()
    cacheFault,        \* TRUE once cleanupExpired has run into its dangling iterator
    \* ---- LRUCache history (not program state) ----
    recency,           \* keys by their most recent successful get or put, latest first
    putTime,           \* per key: the time of its last put (-1: never)
    hitSince,          \* the keys that had a get hit since their last put
    lastOp,            \* the last get/contains call: what it was asked and answered
    \* ---- ConnectionPool fields ----
    pool_size_,        \* size_t pool_size_
    max_wait_ms_,      \* int max_wait_ms_
    shutdown_,         \* bool shutdown_
    available_connections_,  \* std::queue<std::unique_ptr<pqxx::connection>>, front first
    connOpen,          \* per connection: conn->is_open()
    dbUp,              \* whether the database accepts connections
    pnow,              \* std::chrono::steady_clock::now()
    acqPc,             \* per caller: "idle", "waiting" (in wait_until), "woken", "holding"
    deadline,          \* per caller in acquire(): its deadline
    held,              \* per caller: the connection of its PooledConnection (0: none)
    \* ---- ConnectionPool history (not program state) ----
    lastAcq,           \* how the acquire() call that ended last ended
    lastRel,           \* the release that happened last: who, on which path, what
    \* ---- devices and cached clients ----
    deviceRow,         \* fire_tv_devices: per device_id its stored row
    clients_cache_,    \* CommandController::clients_cache_ (HTTP commands)
    mqtt_clients_,     \* CommandHandler::clients_ (MQTT commands)
    pairing_clients_,  \* PairingController::clients_
    deviceAwake,       \* per device: whether its Lightning API answers
    wnow,              \* std::chrono::system_clock::now()
    \* ---- history (not program state) ----
    lastPair,          \* the last pairing request: what it met and how it was answered
    lastCmd,           \* the last command sent: its client and the row's values then
    \* ---- one LightningClient ----
    ip_address_,       \* std::string ip_address_
    api_key_,          \* std::string api_key_
    client_token_,     \* std::string client_token_
    lastVerify,        \* history: the last verifyPin call, its answer and its result
    \* ---- command history (CommandController / CommandHandler) ----
    logger_init_flag_, \* std::once_flag logger_init_flag_: TRUE once call_once has run
    hPc,               \* position of the request thread in an HTTP command handler
    cur,               \* the command that thread is handling
    lastDone,          \* history: the command whose handling ended last
    \* ---- command routing of the two intakes ----
    routeCmd,          \* the normalized command that arrives
    lastRoute,         \* history: that command and what each intake did with it
    \* ---- MQTTClient and the broker connection ----
    connected_,        \* bool connected_
    libConnected,      \* client_->is_connected() of the client library
    subscribed,        \* the topic filters the broker holds for this session
    command_callbacks_,\* keys of command_callbacks_: a device id or "*"
    topic_callbacks_,  \* keys of topic_callbacks_: exact topics
    roster,            \* device ids in fire_tv_devices as getAllDevices() returns them
    threadPc,          \* position of the main thread and of the library's receive thread
    todo,              \* per thread: the devices it still has to publish discovery for
    \* ---- history (not program state) ----
    lastLink,          \* "up" until the connection is lost, then "lost" or "reconnected"
    lastMsg,           \* the message that arrived last and the dispatches it caused
    \* ---- DatabaseService ----
    pool_,             \* whether pool_ is set (initialize() has run)
    dbPc,              \* position of the thread inside executeQuery / executeQueryParams
    attempt,           \* int attempt of the retry loop
    dbHeld,            \* pool connections the call holds
    \* ---- history (not program state) ----
    lastDb,            \* the database call under way or ended last, and what it did
    \* ---- HTTP command endpoints ----
    httpReq,           \* the request that arrives: endpoint, device, body, the device's answer
    lastAnswer,        \* history: that request and the status it was answered with
    \* ---- a second thread calling BackgroundLogger::start() ----
    starterPc,         \* "idle", or "checked": it has read running_ as false
    extraWorker,       \* whether its std::thread was created while a worker thread lived
    \* ---- CommandHandler::handleCommand and the device record ----
    seenIn,            \* the MQTT payload and what the device and the database will do
    seenRow,           \* last_seen_at and status of the device record
    lastSeenRun,       \* history: the payload handled and the record before it
    \* ---- pairing requests handled on several server threads ----
    pendingStart       \* per device: a startPairing that has read the record, not yet written

loggerVars == <<max_queue_size_, running_, dropped_count_, queue_, mutex_, workerPc,
                curTask, enqPc, ctlPc, nextId, throwing, accepted, rejected,
                executed, lastEnq, atStop, lastStop>>

cacheVars == <<max_size_, ttl_, lru_list_, cache_map_, cnow, cacheFault, recency, putTime,
               hitSince, lastOp>>

poolVars == <<pool_size_, max_wait_ms_, shutdown_, available_connections_, connOpen, dbUp,
              pnow, acqPc, deadline, held, lastAcq, lastRel>>

clientVars == <<deviceRow, clients_cache_, mqtt_clients_, pairing_clients_, deviceAwake,
                wnow, lastPair, lastCmd>>

lightningVars == <<ip_address_, api_key_, client_token_, lastVerify>>

historyVars == <<logger_init_flag_, hPc, cur, lastDone>>

routingVars == <<routeCmd, lastRoute>>

bridgeVars == <<connected_, libConnected, subscribed, command_callbacks_, topic_callbacks_,
                roster, threadPc, todo, lastLink, lastMsg>>

dbVars == <<pool_, dbPc, attempt, dbHeld, lastDb>>

endpointVars == <<httpReq, lastAnswer>>

starterVars == <<starterPc, extraWorker>>

seenVars == <<seenIn, seenRow, lastSeenRun>>

pairRaceVars == <<pendingStart>>

vars == <<loggerVars, cacheVars, poolVars, clientVars, lightningVars, historyVars,
          routingVars, bridgeVars, dbVars, endpointVars, starterVars, seenVars, pairRaceVars>>

\* what each component leaves alone
othersOfLogger == <<cacheVars, poolVars, clientVars, lightningVars, historyVars, routingVars, bridgeVars, dbVars, endpointVars, starterVars, seenVars, pairRaceVars>>
othersOfCache == <<loggerVars, poolVars, clientVars, lightningVars, historyVars, routingVars, bridgeVars, dbVars, endpointVars, starterVars, seenVars, pairRaceVars>>
othersOfPool == <<loggerVars, cacheVars, clientVars, lightningVars, historyVars, routingVars, bridgeVars, dbVars, endpointVars, starterVars, seenVars, pairRaceVars>>
othersOfClients == <<loggerVars, cacheVars, poolVars, lightningVars, historyVars, routingVars, bridgeVars, dbVars, endpointVars, starterVars, seenVars, pairRaceVars>>
othersOfLightning == <<loggerVars, cacheVars, poolVars, clientVars, historyVars, routingVars, bridgeVars, dbVars, endpointVars, starterVars, seenVars, pairRaceVars>>
\* the command handlers use the logger
othersOfHistory == <<cacheVars, poolVars, clientVars, lightningVars, routingVars, bridgeVars, dbVars, endpointVars, starterVars, seenVars, pairRaceVars>>
othersOfRouting == <<loggerVars, cacheVars, poolVars, clientVars, lightningVars, historyVars,
                    bridgeVars, dbVars, endpointVars, starterVars, seenVars, pairRaceVars>>
othersOfBridge == <<loggerVars, cacheVars, poolVars, clientVars, lightningVars, historyVars,
                   routingVars, dbVars, endpointVars, starterVars, seenVars, pairRaceVars>>
othersOfDb == <<loggerVars, cacheVars, poolVars, clientVars, lightningVars, historyVars,
               routingVars, bridgeVars, endpointVars, starterVars, seenVars, pairRaceVars>>
othersOfEndpoint == <<loggerVars, cacheVars, poolVars, clientVars, lightningVars, historyVars,
                     routingVars, bridgeVars, dbVars, starterVars, seenVars, pairRaceVars>>

Range(s) == {s[i] : i \in 1..Len(s)}

NoEnq == [id |-> 0, result |-> TRUE, lenBefore |-> 0, queueSame |-> TRUE, dropDelta |-> 0]
NoStop == [kind |-> "none", covered |-> {}, pending |-> {}, unexecuted |-> {}, left |-> {}]
NoCall == [accepted |-> {}, pending |-> {}]

(***************************************************************************)
(* BackgroundLogger                                                        *)
(***************************************************************************)

\* BackgroundLogger(max_queue_size): running_(false), dropped_count_(0), empty queue
LoggerInit ==
    /\ max_queue_size_ \in 0..MaxQueueSize
    /\ running_ = FALSE
    /\ dropped_count_ = 0
    /\ queue_ = <<>>
    /\ mutex_ = FALSE
    /\ workerPc = "none"
    /\ curTask = 0
    /\ enqPc = [e \in Enqueuers |-> "idle"]
    /\ ctlPc = "idle"
    /\ nextId = 1
    /\ throwing = {}
    /\ accepted = <<>>
    /\ rejected = {}
    /\ executed = <<>>
    /\ lastEnq = NoEnq
    /\ atStop = NoCall
    /\ lastStop = NoStop

\* the logger as the other specifications hold it: constructed, never used
LoggerQuiet ==
    /\ LoggerInit
    /\ max_queue_size_ = 0

\* cv_.notify_one(): wakes the worker if it is blocked in cv_.wait
NotifyOne(pc) == IF pc = "blocked" THEN "woken" ELSE pc

\* enqueue: if (queue_.size() >= max_queue_size_)
QueueFullOffByOne(q, max) == Len(q) > max
QueueFull(q, max) == Len(q) >= max

\* start(): if running_ return; running_ = true; worker_thread_ = std::thread(workerLoop)
StartThread ==
    /\ ctlPc = "idle"
    /\ ~running_
    /\ running_' = TRUE
    /\ workerPc' = "loop"
    /\ lastStop' = NoStop
    /\ UNCHANGED <<max_queue_size_, dropped_count_, queue_, mutex_, curTask, enqPc, ctlPc,
                   nextId, throwing, accepted, rejected, executed, lastEnq, atStop>>

\* start() called on a logger of its own
Start ==
    /\ StartThread
    /\ UNCHANGED othersOfLogger

\* stop(), first half: if (!running_) return; running_ = false;
StopBegin ==
    /\ ctlPc = "idle"
    /\ IF ~running_
       THEN /\ lastStop' = [kind |-> "noop",
                            covered |-> Range(accepted),
                            pending |-> Range(accepted) \ Range(executed),
                            unexecuted |-> Range(accepted) \ Range(executed),
                            left |-> Range(queue_)]
            /\ UNCHANGED <<running_, ctlPc, atStop>>
       ELSE /\ running_' = FALSE
            /\ ctlPc' = "stop_notify"
            /\ atStop' = [accepted |-> Range(accepted),
                           pending |-> Range(accepted) \ Range(executed)]
            /\ UNCHANGED lastStop
    /\ UNCHANGED <<max_queue_size_, dropped_count_, queue_, mutex_, workerPc, curTask, enqPc,
                   nextId, throwing, accepted, rejected, executed, lastEnq>>
    /\ UNCHANGED othersOfLogger

\* stop(): cv_.notify_one();
StopNotify ==
    /\ ctlPc = "stop_notify"
    /\ workerPc' = NotifyOne(workerPc)
    /\ ctlPc' = "stop_join"
    /\ UNCHANGED <<max_queue_size_, running_, dropped_count_, queue_, mutex_, curTask, enqPc,
                   nextId, throwing, accepted, rejected, executed, lastEnq, atStop, lastStop>>
    /\ UNCHANGED othersOfLogger

\* stop(): worker_thread_.join(); ... return
StopJoin ==
    /\ ctlPc = "stop_join"
    /\ workerPc = "exit"
    /\ workerPc' = "none"
    /\ ctlPc' = "idle"
    /\ lastStop' = [kind |-> "joined",
                    covered |-> atStop.accepted,
                    pending |-> atStop.pending,
                    unexecuted |-> atStop.accepted \ Range(executed),
                    left |-> Range(queue_)]
    /\ atStop' = NoCall
    /\ UNCHANGED <<max_queue_size_, running_, dropped_count_, queue_, mutex_, curTask, enqPc,
                   nextId, throwing, accepted, rejected, executed, lastEnq>>
    /\ UNCHANGED othersOfLogger

\* enqueue(task), the part under mutex_: capacity check, then drop or push
EnqueueLocked(e) ==
    /\ enqPc[e] = "idle"
    /\ ~mutex_
    /\ nextId <= MaxTasks
    /\ \E th \in BOOLEAN :
         throwing' = IF th THEN throwing \cup {nextId} ELSE throwing
    /\ nextId' = nextId + 1
    /\ IF QueueFull(queue_, max_queue_size_)
       THEN /\ dropped_count_' = dropped_count_ + 1
            /\ rejected' = rejected \cup {nextId}
            /\ UNCHANGED <<queue_, accepted, enqPc>>
            /\ lastEnq' = [id |-> nextId, result |-> FALSE, lenBefore |-> Len(queue_),
                           queueSame |-> (queue_' = queue_),
                           dropDelta |-> dropped_count_' - dropped_count_]
       ELSE /\ queue_' = Append(queue_, nextId)
            /\ accepted' = Append(accepted, nextId)
            /\ enqPc' = [enqPc EXCEPT ![e] = "notify"]
            /\ UNCHANGED <<dropped_count_, rejected>>
            /\ lastEnq' = [id |-> nextId, result |-> TRUE, lenBefore |-> Len(queue_),
                           queueSame |-> (queue_' = queue_),
                           dropDelta |-> dropped_count_' - dropped_count_]
    /\ UNCHANGED <<max_queue_size_, running_, mutex_, workerPc, curTask, ctlPc,
                   executed, atStop, lastStop>>

\* a thread of its own calls enqueue(task)
Enqueue(e) ==
    /\ EnqueueLocked(e)
    /\ UNCHANGED othersOfLogger

\* enqueue(task), after lock.unlock(): cv_.notify_one(); return true
EnqueueUnlocked(e) ==
    /\ enqPc[e] = "notify"
    /\ workerPc' = NotifyOne(workerPc)
    /\ enqPc' = [enqPc EXCEPT ![e] = "idle"]
    /\ UNCHANGED <<max_queue_size_, running_, dropped_count_, queue_, mutex_, curTask, ctlPc,
                   nextId, throwing, accepted, rejected, executed, lastEnq, atStop, lastStop>>

\* the thread that pushed a task finishes its enqueue call
EnqueueNotify(e) ==
    /\ EnqueueUnlocked(e)
    /\ UNCHANGED othersOfLogger

\* workerLoop: while (running_.load() || !queue_.empty())
LoopConditionRunningOnly == running_
LoopCondition == running_ \/ queue_ # <<>>

\* the predicate of cv_.wait: !queue_.empty() || !running_.load()
WaitPredicate == queue_ # <<>> \/ ~running_

\* LogTask task = std::move(queue_.front()); queue_.pop();
TakeTaskFromBack(q) == [task |-> q[Len(q)], rest |-> SubSeq(q, 1, Len(q) - 1)]
TakeTask(q) == [task |-> Head(q), rest |-> Tail(q)]

\* try { task(); } catch (const std::exception&) {...} catch (...) {...}
RunTaskNoCatch(t) == IF t \in throwing THEN "uncaught" ELSE "returned"
RunTask(t) == IF t \in throwing THEN "caught" ELSE "returned"

\* the worker evaluates the condition of its outer while loop
WorkerLoop ==
    /\ workerPc = "loop"
    /\ workerPc' = IF LoopCondition THEN "lock" ELSE "exit"
    /\ UNCHANGED <<max_queue_size_, running_, dropped_count_, queue_, mutex_, curTask, enqPc,
                   ctlPc, nextId, throwing, accepted, rejected, executed, lastEnq, atStop,
                   lastStop>>
    /\ UNCHANGED othersOfLogger

\* std::unique_lock<std::mutex> lock(mutex_);
WorkerLock ==
    /\ workerPc = "lock"
    /\ ~mutex_
    /\ mutex_' = TRUE
    /\ workerPc' = "pred"
    /\ UNCHANGED <<max_queue_size_, running_, dropped_count_, queue_, curTask, enqPc,
                   ctlPc, nextId, throwing, accepted, rejected, executed, lastEnq, atStop,
                   lastStop>>
    /\ UNCHANGED othersOfLogger

\* cv_.wait(lock, pred): the predicate is evaluated holding mutex_
WorkerPred ==
    /\ workerPc = "pred"
    /\ workerPc' = IF WaitPredicate THEN "drain" ELSE "prewait"
    /\ UNCHANGED <<max_queue_size_, running_, dropped_count_, queue_, mutex_, curTask, enqPc,
                   ctlPc, nextId, throwing, accepted, rejected, executed, lastEnq, atStop,
                   lastStop>>
    /\ UNCHANGED othersOfLogger

\* cv_.wait: the predicate was false; release mutex_ and block
WorkerBlock ==
    /\ workerPc = "prewait"
    /\ mutex_' = FALSE
    /\ workerPc' = "blocked"
    /\ UNCHANGED <<max_queue_size_, running_, dropped_count_, queue_, curTask, enqPc,
                   ctlPc, nextId, throwing, accepted, rejected, executed, lastEnq, atStop,
                   lastStop>>
    /\ UNCHANGED othersOfLogger

\* cv_.wait may return without a notification (spurious wakeup)
WorkerSpurious ==
    /\ workerPc = "blocked"
    /\ workerPc' = "woken"
    /\ UNCHANGED <<max_queue_size_, running_, dropped_count_, queue_, mutex_, curTask, enqPc,
                   ctlPc, nextId, throwing, accepted, rejected, executed, lastEnq, atStop,
                   lastStop>>
    /\ UNCHANGED othersOfLogger

\* cv_.wait: woken, re-acquire mutex_ and evaluate the predicate again
WorkerWake ==
    /\ workerPc = "woken"
    /\ ~mutex_
    /\ mutex_' = TRUE
    /\ workerPc' = "pred"
    /\ UNCHANGED <<max_queue_size_, running_, dropped_count_, queue_, curTask, enqPc,
                   ctlPc, nextId, throwing, accepted, rejected, executed, lastEnq, atStop,
                   lastStop>>
    /\ UNCHANGED othersOfLogger

\* while (!queue_.empty()) { pop; lock.unlock(); ... } and the end of the locked scope
WorkerDrain ==
    /\ workerPc = "drain"
    /\ IF queue_ # <<>>
       THEN /\ curTask' = TakeTask(queue_).task
            /\ queue_' = TakeTask(queue_).rest
            /\ workerPc' = "run"
       ELSE /\ workerPc' = "loop"
            /\ UNCHANGED <<curTask, queue_>>
    /\ mutex_' = FALSE
    /\ UNCHANGED <<max_queue_size_, running_, dropped_count_, enqPc,
                   ctlPc, nextId, throwing, accepted, rejected, executed, lastEnq, atStop,
                   lastStop>>
    /\ UNCHANGED othersOfLogger

\* the worker runs the task outside the lock; an exception is caught and logged
WorkerRun ==
    /\ workerPc = "run"
    /\ executed' = Append(executed, curTask)
    /\ curTask' = 0
    /\ workerPc' = IF RunTask(curTask) = "uncaught" THEN "exit" ELSE "relock"
    /\ UNCHANGED <<max_queue_size_, running_, dropped_count_, queue_, mutex_, enqPc,
                   ctlPc, nextId, throwing, accepted, rejected, lastEnq, atStop,
                   lastStop>>
    /\ UNCHANGED othersOfLogger

\* lock.lock(); at the end of the inner loop body
WorkerRelock ==
    /\ workerPc = "relock"
    /\ ~mutex_
    /\ mutex_' = TRUE
    /\ workerPc' = "drain"
    /\ UNCHANGED <<max_queue_size_, running_, dropped_count_, queue_, curTask, enqPc,
                   ctlPc, nextId, throwing, accepted, rejected, executed, lastEnq, atStop,
                   lastStop>>
    /\ UNCHANGED othersOfLogger

WorkerStep ==
    \/ WorkerLoop
    \/ WorkerLock
    \/ WorkerPred
    \/ WorkerBlock
    \/ WorkerWake
    \/ WorkerDrain
    \/ WorkerRun
    \/ WorkerRelock

(***************************************************************************)
(* LRUCache                                                                *)
(***************************************************************************)

NoValue == "none"
NoOp == [op |-> "none", hit |-> FALSE, late |-> FALSE, hadHits |-> FALSE,
         keptAfter |-> FALSE, evicted |-> {}, evictedPut |-> -1]

\* LRUCache(max_size, ttl_seconds): empty list and map
CacheInit ==
    /\ max_size_ \in 0..MaxCap
    /\ ttl_ \in 0..MaxTtl
    /\ lru_list_ = <<>>
    /\ cache_map_ = <<>>
    /\ cnow = 0
    /\ cacheFault = FALSE
    /\ recency = <<>>
    /\ putTime = [k \in Keys |-> -1]
    /\ hitSince = {}
    /\ lastOp = NoOp

\* the cache as the other specifications hold it: constructed, never used
CacheQuiet ==
    /\ CacheInit
    /\ max_size_ = 0
    /\ ttl_ = 0

\* the sequence s without the element k
Without(s, k) == SelectSeq(s, LAMBDA x : x # k)

\* the function f without the key k
Drop(f, k) == [x \in (DOMAIN f) \ {k} |-> f[x]]

\* lru_list_.splice(lru_list_.begin(), lru_list_, it->second.list_it)
MoveToFront(list, k) == <<k>> \o Without(list, k)

\* isExpired: Clock::now() >= expiry_time
IsExpiredSwapped(expiry_time, t) == expiry_time >= t
IsExpired(expiry_time, t) == t >= expiry_time

\* evict(key) / evictNoLock(key): erase the list node and the map entry, if present
Evict(c, k) ==
    IF k \in DOMAIN c.map
    THEN [list |-> Without(c.list, k), map |-> Drop(c.map, k)]
    ELSE c

\* evictLRU(): drop the back of the list and its map entry
EvictFront(c) ==
    IF c.list = <<>> THEN c
    ELSE [list |-> Tail(c.list), map |-> Drop(c.map, Head(c.list))]
EvictLRU(c) ==
    IF c.list = <<>> THEN c
    ELSE [list |-> SubSeq(c.list, 1, Len(c.list) - 1),
          map |-> Drop(c.map, c.list[Len(c.list)])]

\* get(key): absent if unknown; evicted and absent if expired; else moved to front
GetOp(c, k, t) ==
    IF k \notin DOMAIN c.map
    THEN [hit |-> FALSE, value |-> NoValue, cache |-> c]
    ELSE IF IsExpired(c.map[k].expiry_time, t)
    THEN [hit |-> FALSE, value |-> NoValue, cache |-> Evict(c, k)]
    ELSE [hit |-> TRUE, value |-> c.map[k].value,
          cache |-> [list |-> MoveToFront(c.list, k), map |-> c.map]]

\* put(key, value): refresh an existing entry, else evict at capacity and insert at front
PutOp(c, k, v, t, ttl, max) ==
    IF k \in DOMAIN c.map
    THEN [list |-> MoveToFront(c.list, k),
          map |-> [c.map EXCEPT ![k] = [value |-> v, expiry_time |-> t + ttl]]]
    ELSE LET d == IF Cardinality(DOMAIN c.map) >= max THEN EvictLRU(c) ELSE c
         IN  [list |-> <<k>> \o d.list,
              map |-> [x \in (DOMAIN d.map) \cup {k} |->
                          IF x = k THEN [value |-> v, expiry_time |-> t + ttl]
                          ELSE d.map[x]]]

\* contains(key): present and not expired; changes nothing
ContainsOp(c, k, t) ==
    k \in DOMAIN c.map /\ ~IsExpired(c.map[k].expiry_time, t)

\* the keys cleanupExpired finds expired
ExpiredKeys(c, t) == {k \in DOMAIN c.map : IsExpired(c.map[k].expiry_time, t)}

\* cleanupExpired(), when its loop runs to the end: every expired entry is gone
SweepOp(c, t) ==
    [list |-> SelectSeq(c.list, LAMBDA x : x \notin ExpiredKeys(c, t)),
     map |-> [x \in (DOMAIN c.map) \ ExpiredKeys(c, t) |-> c.map[x]]]

\* cleanupExpired(), up to its first erase: the expired entry nearest the back is gone
FirstExpiredFromBack(c, t) ==
    LET idx == {i \in 1..Len(c.list) : c.list[i] \in ExpiredKeys(c, t)}
    IN  c.list[CHOOSE i \in idx : \A j \in idx : j <= i]

Cache == [list |-> lru_list_, map |-> cache_map_]

\* the history of uses: k becomes the most recently used key
Used(k) == <<k>> \o Without(recency, k)

\* the history keeps what it knows of the entries that are still stored
Stored(seq, map) == SelectSeq(seq, LAMBDA x : x \in DOMAIN map)
StoredTimes(times, map) == [x \in Keys |-> IF x \in DOMAIN map THEN times[x] ELSE -1]

\* the latest put time among the keys of a set (-1 for the empty set)
LatestPut(S) == IF S = {} THEN -1 ELSE CHOOSE t \in {putTime[x] : x \in S} :
                                          \A y \in S : putTime[y] <= t

\* std::optional<V> get(const K& key)
Get(k) ==
    /\ ~cacheFault
    /\ LET r == GetOp(Cache, k, cnow) IN
         /\ lru_list_' = r.cache.list
         /\ cache_map_' = r.cache.map
         /\ recency' = Stored(IF r.hit THEN Used(k) ELSE recency, r.cache.map)
         /\ hitSince' = (IF r.hit THEN hitSince \cup {k} ELSE hitSince) \cap DOMAIN r.cache.map
         /\ putTime' = StoredTimes(putTime, r.cache.map)
         /\ lastOp' = [op |-> "get", hit |-> r.hit,
                       late |-> (k \in DOMAIN cache_map_ /\ cnow > putTime[k] + ttl_),
                       hadHits |-> (k \in hitSince),
                       keptAfter |-> (k \in DOMAIN r.cache.map),
                       evicted |-> {}, evictedPut |-> -1]
    /\ UNCHANGED <<max_size_, ttl_, cnow, cacheFault>>
    /\ UNCHANGED othersOfCache

\* void put(const K& key, const V& value)
Put(k, v) ==
    /\ ~cacheFault
    /\ LET c == PutOp(Cache, k, v, cnow, ttl_, max_size_) IN
         /\ lru_list_' = c.list
         /\ cache_map_' = c.map
         /\ recency' = Stored(Used(k), c.map)
         /\ putTime' = StoredTimes([putTime EXCEPT ![k] = cnow], c.map)
         /\ hitSince' = (hitSince \ {k}) \cap DOMAIN c.map
         /\ lastOp' = [NoOp EXCEPT !.op = "put",
                                   !.evicted = (DOMAIN cache_map_) \ (DOMAIN c.map),
                                   !.evictedPut = LatestPut((DOMAIN cache_map_) \ (DOMAIN c.map))]
    /\ UNCHANGED <<max_size_, ttl_, cnow, cacheFault>>
    /\ UNCHANGED othersOfCache

\* void remove(const K& key)
Remove(k) ==
    /\ ~cacheFault
    /\ LET c == Evict(Cache, k) IN
         /\ lru_list_' = c.list
         /\ cache_map_' = c.map
         /\ recency' = Stored(recency, c.map)
         /\ putTime' = StoredTimes(putTime, c.map)
         /\ hitSince' = hitSince \cap DOMAIN c.map
    /\ lastOp' = NoOp
    /\ UNCHANGED <<max_size_, ttl_, cnow, cacheFault>>
    /\ UNCHANGED othersOfCache

\* void clear()
Clear ==
    /\ ~cacheFault
    /\ lru_list_' = <<>>
    /\ cache_map_' = <<>>
    /\ recency' = <<>>
    /\ putTime' = [x \in Keys |-> -1]
    /\ hitSince' = {}
    /\ lastOp' = NoOp
    /\ UNCHANGED <<max_size_, ttl_, cnow, cacheFault>>
    /\ UNCHANGED othersOfCache

\* bool contains(const K& key) const
Contains(k) ==
    /\ ~cacheFault
    /\ lastOp' = [op |-> "contains", hit |-> ContainsOp(Cache, k, cnow),
                  late |-> (k \in DOMAIN cache_map_ /\ cnow > putTime[k] + ttl_),
                  hadHits |-> (k \in hitSince),
                  keptAfter |-> (k \in DOMAIN cache_map_),
                  evicted |-> {}, evictedPut |-> -1]
    /\ UNCHANGED <<max_size_, ttl_, lru_list_, cache_map_, cnow, cacheFault, recency,
                   putTime, hitSince>>
    /\ UNCHANGED othersOfCache

\* size_t cleanupExpired(): after evictNoLock(key) the loop goes on from forward_it,
\* an iterator to the node just erased. With nothing expired the loop only walks the
\* list. Otherwise the walk through the freed node either still finds the old links
\* (every expired entry is removed) or faults (the first expired entry is removed and
\* the call does not return).
CleanupExpired ==
    /\ ~cacheFault
    /\ \E c \in (IF ExpiredKeys(Cache, cnow) = {}
                 THEN {[cache |-> Cache, fault |-> FALSE]}
                 ELSE {[cache |-> SweepOp(Cache, cnow), fault |-> FALSE],
                       [cache |-> Evict(Cache, FirstExpiredFromBack(Cache, cnow)),
                        fault |-> TRUE]}) :
         /\ lru_list_' = c.cache.list
         /\ cache_map_' = c.cache.map
         /\ cacheFault' = c.fault
         /\ recency' = Stored(recency, c.cache.map)
         /\ putTime' = StoredTimes(putTime, c.cache.map)
         /\ hitSince' = hitSince \cap DOMAIN c.cache.map
    /\ lastOp' = NoOp
    /\ UNCHANGED <<max_size_, ttl_, cnow>>
    /\ UNCHANGED othersOfCache

\* the steady clock advances
Tick ==
    /\ cnow < MaxTime
    /\ cnow' = cnow + 1
    /\ lastOp' = NoOp
    /\ UNCHANGED <<max_size_, ttl_, lru_list_, cache_map_, cacheFault, recency, putTime,
                   hitSince>>
    /\ UNCHANGED othersOfCache

CacheNext ==
    \/ \E k \in Keys : Get(k)
    \/ \E k \in Keys, v \in Values : Put(k, v)
    \/ \E k \in Keys : Remove(k)
    \/ Clear
    \/ \E k \in Keys : Contains(k)
    \/ CleanupExpired
    \/ Tick

(***************************************************************************)
(* ConnectionPool                                                          *)
(***************************************************************************)

NoAcq == [caller |-> "none", outcome |-> "none", at |-> 0, deadline |-> 0,
          open |-> FALSE, reopened |-> FALSE, idleAtCall |-> FALSE, waited |-> FALSE]

NoRel == [caller |-> "none", path |-> "none", conn |-> 0, shutdown |-> FALSE]

\* ConnectionPool(connection_string, pool_size, max_wait_ms): every connection that
\* opens is queued; one that fails to open is logged and left out
PoolInit ==
    /\ pool_size_ \in 1..MaxPool
    /\ max_wait_ms_ \in 0..MaxWait
    /\ shutdown_ = FALSE
    /\ \E k \in 0..pool_size_ : available_connections_ = [i \in 1..k |-> i]
    /\ connOpen = [c \in 1..MaxPool |-> c \in Range(available_connections_)]
    /\ dbUp \in BOOLEAN
    /\ pnow = 0
    /\ acqPc = [t \in Callers |-> "idle"]
    /\ deadline = [t \in Callers |-> 0]
    /\ held = [t \in Callers |-> 0]
    /\ lastAcq = NoAcq
    /\ lastRel = NoRel

\* the pool as the other specifications hold it: constructed, never used
PoolQuiet ==
    /\ PoolInit
    /\ pool_size_ = 1
    /\ max_wait_ms_ = 0
    /\ available_connections_ = <<>>
    /\ dbUp = FALSE

\* std::make_unique<pqxx::connection>(connection_string_): the constructor connects at
\* once; it yields an open connection or throws (pqxx::broken_connection)
Connect == IF dbUp THEN "open" ELSE "throws"

\* cv_.wait_until(lock, deadline): the status it returns is taken from the clock when
\* the wait returns
WaitStatusNever(tm, dl) == "no_timeout"
WaitStatus(tm, dl) == IF tm >= dl THEN "timeout" ELSE "no_timeout"

\* acquire: if (!conn || !conn->is_open()) the connection is recreated
NeedsReopenNever(c) == FALSE
NeedsReopen(c) == ~connOpen[c]

\* cv_.notify_one(): one of the callers blocked in wait_until, if any, is woken
NotifyOneWaiter(pcs) ==
    IF \E t \in Callers : pcs[t] = "waiting"
    THEN {[pcs EXCEPT ![t] = "woken"] : t \in {u \in Callers : pcs[u] = "waiting"}}
    ELSE {pcs}

\* cv_.notify_all(): every caller blocked in wait_until is woken
NotifyAllWaitersNone(pcs) == pcs
NotifyAllWaiters(pcs) == [t \in Callers |-> IF pcs[t] = "waiting" THEN "woken" ELSE pcs[t]]

\* available_connections_.pop(): the connection taken from the front leaves the queue
PopFrontKeeps(q) == q
PopFront(q) == Tail(q)

\* acquire(), holding mutex_, from the test of the while loop to the wait or the return:
\* wait if nothing is idle and the pool is open; else throw if shut down; else pop the
\* front connection, re-open it if it is closed, and hand it out
AcquireLocked(t, dl, idle, waited) ==
    IF available_connections_ = <<>> /\ ~shutdown_
    THEN /\ acqPc' = [acqPc EXCEPT ![t] = "waiting"]
         /\ deadline' = [deadline EXCEPT ![t] = dl]
         /\ lastAcq' = NoAcq
         /\ UNCHANGED <<available_connections_, connOpen, held>>
    ELSE IF shutdown_
    THEN /\ acqPc' = [acqPc EXCEPT ![t] = "idle"]
         /\ deadline' = [deadline EXCEPT ![t] = 0]
         /\ lastAcq' = [NoAcq EXCEPT !.caller = t, !.outcome = "shutting_down",
                                     !.at = pnow, !.deadline = dl, !.idleAtCall = idle,
                                     !.waited = waited]
         /\ UNCHANGED <<available_connections_, connOpen, held>>
    ELSE LET c == Head(available_connections_) IN
         /\ available_connections_' = PopFront(available_connections_)
         /\ deadline' = [deadline EXCEPT ![t] = 0]
         /\ IF NeedsReopen(c) /\ Connect = "throws"
            THEN /\ acqPc' = [acqPc EXCEPT ![t] = "idle"]
                 /\ lastAcq' = [NoAcq EXCEPT !.caller = t, !.outcome = "connect_error",
                                             !.at = pnow, !.deadline = dl,
                                             !.idleAtCall = idle, !.waited = waited]
                 /\ UNCHANGED <<connOpen, held>>
            ELSE /\ connOpen' = IF NeedsReopen(c) THEN [connOpen EXCEPT ![c] = TRUE]
                                ELSE connOpen
                 /\ acqPc' = [acqPc EXCEPT ![t] = "holding"]
                 /\ held' = [held EXCEPT ![t] = c]
                 /\ lastAcq' = [caller |-> t, outcome |-> "connection", at |-> pnow,
                                deadline |-> dl, open |-> connOpen'[c],
                                reopened |-> NeedsReopen(c), idleAtCall |-> idle,
                                waited |-> waited]

\* acquire(): lock mutex_, compute the deadline, enter the while loop
AcquireCall(t) ==
    /\ acqPc[t] = "idle"
    /\ pnow + max_wait_ms_ <= PoolMaxTime
    /\ AcquireLocked(t, pnow + max_wait_ms_, available_connections_ # <<>> /\ ~shutdown_,
                     FALSE)
    /\ lastRel' = NoRel
    /\ UNCHANGED <<pool_size_, max_wait_ms_, shutdown_, dbUp, pnow>>
    /\ UNCHANGED othersOfPool

\* wait_until ends because the deadline is reached
WaitTimeout(t) ==
    /\ acqPc[t] = "waiting"
    /\ pnow >= deadline[t]
    /\ acqPc' = [acqPc EXCEPT ![t] = "woken"]
    /\ lastAcq' = NoAcq
    /\ lastRel' = NoRel
    /\ UNCHANGED <<pool_size_, max_wait_ms_, shutdown_, available_connections_, connOpen,
                   dbUp, pnow, deadline, held>>
    /\ UNCHANGED othersOfPool

\* wait_until may end without a notification (spurious wakeup)
WaitSpurious(t) ==
    /\ acqPc[t] = "waiting"
    /\ pnow < deadline[t]
    /\ acqPc' = [acqPc EXCEPT ![t] = "woken"]
    /\ lastAcq' = NoAcq
    /\ lastRel' = NoRel
    /\ UNCHANGED <<pool_size_, max_wait_ms_, shutdown_, available_connections_, connOpen,
                   dbUp, pnow, deadline, held>>
    /\ UNCHANGED othersOfPool

\* wait_until returns holding mutex_ again: on timeout acquire throws the pool-timeout
\* error, else it tests the while loop again
WaitReturn(t) ==
    /\ acqPc[t] = "woken"
    /\ IF WaitStatus(pnow, deadline[t]) = "timeout"
       THEN /\ acqPc' = [acqPc EXCEPT ![t] = "idle"]
            /\ deadline' = [deadline EXCEPT ![t] = 0]
            /\ lastAcq' = [NoAcq EXCEPT !.caller = t, !.outcome = "timeout", !.at = pnow,
                                        !.deadline = deadline[t], !.waited = TRUE]
            /\ UNCHANGED <<available_connections_, connOpen, held>>
       ELSE AcquireLocked(t, deadline[t], FALSE, TRUE)
    /\ lastRel' = NoRel
    /\ UNCHANGED <<pool_size_, max_wait_ms_, shutdown_, dbUp, pnow>>
    /\ UNCHANGED othersOfPool

\* returnConnection: if (shutdown_) the connection is closed and dropped
ClosedOnReturnNever == FALSE
ClosedOnReturn == shutdown_

\* the scope of the caller's PooledConnection ends, by the return of executeQuery's try
\* block ("returned") or by an exception thrown in it ("threw"): ~PooledConnection ->
\* returnConnection(conn): closed and dropped after shutdown, else queued again and one
\* waiter notified
Release(t, path) ==
    /\ acqPc[t] = "holding"
    /\ held' = [held EXCEPT ![t] = 0]
    /\ IF ClosedOnReturn
       THEN /\ connOpen' = [connOpen EXCEPT ![held[t]] = FALSE]
            /\ acqPc' = [acqPc EXCEPT ![t] = "idle"]
            /\ UNCHANGED available_connections_
       ELSE /\ available_connections_' = Append(available_connections_, held[t])
            /\ acqPc' \in NotifyOneWaiter([acqPc EXCEPT ![t] = "idle"])
            /\ UNCHANGED connOpen
    /\ lastAcq' = NoAcq
    /\ lastRel' = [caller |-> t, path |-> path, conn |-> held[t], shutdown |-> shutdown_]
    /\ UNCHANGED <<pool_size_, max_wait_ms_, shutdown_, dbUp, pnow, deadline>>
    /\ UNCHANGED othersOfPool

\* shutdown(): mark the pool closed, wake every waiter, close and drop the idle ones
Shutdown ==
    /\ ~shutdown_
    /\ shutdown_' = TRUE
    /\ acqPc' = NotifyAllWaiters(acqPc)
    /\ connOpen' = [c \in 1..MaxPool |->
                      IF c \in Range(available_connections_) THEN FALSE ELSE connOpen[c]]
    /\ available_connections_' = <<>>
    /\ lastAcq' = NoAcq
    /\ lastRel' = NoRel
    /\ UNCHANGED <<pool_size_, max_wait_ms_, dbUp, pnow, deadline, held>>
    /\ UNCHANGED othersOfPool

\* the connection a caller holds breaks while it is used (is_open() turns false)
ConnectionBreaks(t) ==
    /\ acqPc[t] = "holding"
    /\ connOpen[held[t]]
    /\ connOpen' = [connOpen EXCEPT ![held[t]] = FALSE]
    /\ lastAcq' = NoAcq
    /\ lastRel' = NoRel
    /\ UNCHANGED <<pool_size_, max_wait_ms_, shutdown_, available_connections_, dbUp, pnow,
                   acqPc, deadline, held>>
    /\ UNCHANGED othersOfPool

\* the database becomes unreachable or reachable
DatabaseFlips ==
    /\ dbUp' = ~dbUp
    /\ lastAcq' = NoAcq
    /\ lastRel' = NoRel
    /\ UNCHANGED <<pool_size_, max_wait_ms_, shutdown_, available_connections_, connOpen,
                   pnow, acqPc, deadline, held>>
    /\ UNCHANGED othersOfPool

\* the steady clock advances
PoolTick ==
    /\ pnow < PoolMaxTime
    /\ pnow' = pnow + 1
    /\ lastAcq' = NoAcq
    /\ lastRel' = NoRel
    /\ UNCHANGED <<pool_size_, max_wait_ms_, shutdown_, available_connections_, connOpen,
                   dbUp, acqPc, deadline, held>>
    /\ UNCHANGED othersOfPool

PoolNext ==
    \/ \E t \in Callers : AcquireCall(t)
    \/ \E t \in Callers : WaitTimeout(t)
    \/ \E t \in Callers : WaitSpurious(t)
    \/ \E t \in Callers : WaitReturn(t)
    \/ \E t \in Callers, path \in {"returned", "threw"} : Release(t, path)
    \/ Shutdown
    \/ \E t \in Callers : ConnectionBreaks(t)
    \/ DatabaseFlips
    \/ PoolTick

(***************************************************************************)
(* LightningClient: the PIN requests                                       *)
(***************************************************************************)

\* what executePost reports of the device's answer: status_code (0: no answer),
\* success (a 2xx status) and the "description" member of response_body
Responses ==
    {[success |-> FALSE, status_code |-> 0, has_description |-> FALSE, description |-> ""],
     [success |-> FALSE, status_code |-> 401, has_description |-> FALSE, description |-> ""],
     [success |-> FALSE, status_code |-> 401, has_description |-> TRUE,
      description |-> "tokA"],
     [success |-> TRUE, status_code |-> 204, has_description |-> TRUE,
      description |-> "tokA"],
     [success |-> TRUE, status_code |-> 200, has_description |-> FALSE, description |-> ""]}
    \cup {[success |-> TRUE, status_code |-> 200, has_description |-> TRUE,
           description |-> x] : x \in {"", "OK"} \cup Tokens}

Pins == {"p1", "p2"}

NoResponse == [success |-> FALSE, status_code |-> -1, has_description |-> FALSE,
               description |-> ""]

NoVerify == [pin |-> "", response |-> NoResponse, returned |-> "", before |-> "",
             stored |-> "none"]

\* LightningClient(ip_address, api_key, client_token)
LightningInit ==
    /\ ip_address_ \in Addresses
    /\ api_key_ \in ApiKeys
    /\ client_token_ \in {""} \cup Tokens
    /\ lastVerify = NoVerify

LightningQuiet ==
    /\ ip_address_ = "ipA"
    /\ api_key_ = "keyA"
    /\ client_token_ = ""
    /\ lastVerify = NoVerify

\* verifyPin: "Validate token (must not be "OK" or empty)"
ValidTokenAny(token) == TRUE
ValidToken(token) == token # "" /\ token # "OK"

\* verifyPin(pin) on a client whose client_token_ is `token`, the device answering
\* `r`: the value returned and the client_token_ left behind
VerifyPin(token, r) ==
    IF r.success /\ r.status_code = 200 /\ r.has_description /\ ValidToken(r.description)
    THEN [returned |-> r.description, client_token |-> r.description]
    ELSE [returned |-> "", client_token |-> token]

\* the device answered 200 with a description that is neither empty nor "OK"
AnsweredWithToken(r) ==
    /\ r.success /\ r.status_code = 200 /\ r.has_description
    /\ r.description # "" /\ r.description # "OK"

\* displayPin(): the PIN the device reports, "" on any failure
DisplayPin(r) ==
    IF r.success /\ r.status_code = 200 /\ r.has_description THEN r.description ELSE ""

\* PairingController::verifyPairing after client->verifyPin returned: an empty token
\* ends the request with an error; any other is written to the device's row
\* ("none": no UPDATE is issued)
TokenWritten(returned) == IF returned = "" THEN "none" ELSE returned

\* a caller invokes verifyPin(pin) and handles the result as verifyPairing does
CallVerifyPin(pin, r) ==
    /\ client_token_' = VerifyPin(client_token_, r).client_token
    /\ lastVerify' = [pin |-> pin, response |-> r,
                      returned |-> VerifyPin(client_token_, r).returned,
                      before |-> client_token_,
                      stored |-> TokenWritten(VerifyPin(client_token_, r).returned)]
    /\ UNCHANGED <<ip_address_, api_key_>>
    /\ UNCHANGED othersOfLightning

\* setClientToken(token)
SetClientToken(token) ==
    /\ client_token_' = token
    /\ lastVerify' = NoVerify
    /\ UNCHANGED <<ip_address_, api_key_>>
    /\ UNCHANGED othersOfLightning

LightningNext ==
    \/ \E pin \in Pins, r \in Responses : CallVerifyPin(pin, r)
    \/ \E token \in {""} \cup Tokens : SetClientToken(token)

(***************************************************************************)
(* Devices, pairing, and the cached Protocol Clients of the two transports *)
(***************************************************************************)

\* no time: a NULL timestamp column, an empty std::optional, an empty time string
NoTime == <<>>

\* the row of fire_tv_devices for a device_id that is not stored; in a stored row a NULL
\* client_token or pin_code reads ""
NoRow == [exists |-> FALSE, ip_address |-> "none", api_key |-> "none",
          client_token |-> "", pin_code |-> "", pin_expires_at |-> NoTime,
          status |-> "none"]

\* the rows the table may hold when the service starts: none, an unpaired device, a
\* paired one
StoredRows ==
    {NoRow,
     [exists |-> TRUE, ip_address |-> "ipA", api_key |-> "keyA", client_token |-> "",
      pin_code |-> "", pin_expires_at |-> NoTime, status |-> "offline"],
     [exists |-> TRUE, ip_address |-> "ipA", api_key |-> "keyA", client_token |-> "tokA",
      pin_code |-> "", pin_expires_at |-> NoTime, status |-> "online"]}

\* no LightningClient (nullptr / no cache entry)
NoClient == [ip_address |-> "none", api_key |-> "none", client_token |-> "none"]

NoCmd == [transport |-> "none", device |-> "none", client |-> NoClient, current |-> NoClient,
          command |-> "none", requests |-> <<>>, asleep |-> FALSE]

\* a pairing request: how it was answered, whether a request went to the device and
\* whether the row was left as it was; what it met: a paired device, a stored PIN, a
\* clock before the stored expiry, the stored PIN entered; what the device answered
NoPair == [op |-> "none", device |-> "none", outcome |-> "none", sent |-> FALSE,
           unchanged |-> TRUE, paired |-> FALSE, stored |-> FALSE, early |-> FALSE,
           match |-> FALSE, valid |-> FALSE, sentinel |-> FALSE]

\* the static caches are empty; the table holds what an earlier run left in it
ClientsInit ==
    /\ deviceRow \in [Devices -> StoredRows]
    /\ clients_cache_ = [d \in Devices |-> NoClient]
    /\ mqtt_clients_ = [d \in Devices |-> NoClient]
    /\ pairing_clients_ = [d \in Devices |-> NoClient]
    /\ deviceAwake = [d \in Devices |-> TRUE]
    /\ wnow = 0
    /\ lastCmd = NoCmd
    /\ lastPair = NoPair

ClientsQuiet ==
    /\ ClientsInit
    /\ deviceRow = [d \in Devices |-> NoRow]

\* LightningClient(ip_address, api_key, client_token) built from the stored row; a NULL
\* token and an empty one both leave client_token_ empty
ClientFor(row) == [ip_address |-> row.ip_address, api_key |-> row.api_key,
                   client_token |-> row.client_token]

\* what a client carrying the device's current address, key and token looks like
CurrentClient(d) == IF deviceRow[d].exists THEN ClientFor(deviceRow[d]) ELSE NoClient

\* CommandController::invalidateClient: clients_cache_.remove(device_id)
InvalidateClient(cache, d) == [cache EXCEPT ![d] = NoClient]

\* getClient / getClientForDevice: the cached client if there is one, else a client
\* built from the stored row (nullptr if the device is not stored)
LookupClient(cache, d) ==
    IF cache[d] # NoClient THEN cache[d]
    ELSE IF ~deviceRow[d].exists THEN NoClient
    ELSE ClientFor(deviceRow[d])

\* the cache after that lookup: a client that was built is stored
CacheAfterLookup(cache, d) == [cache EXCEPT ![d] = LookupClient(cache, d)]

\* DeviceRepository::parseDeviceFromRow: the Device a row is read into; the timestamp
\* columns are not parsed, so pin_expires_at stays an empty optional
ParseDeviceFromRowWithTimes(row) == row
ParseDeviceFromRow(row) == [row EXCEPT !.pin_expires_at = NoTime]

\* verifyPairing: the text handed to isPinExpired, "" if the Device has no expiry, else
\* its expiry printed as UTC
ExpiresAtStr(device) ==
    IF device.pin_expires_at = NoTime THEN NoTime ELSE device.pin_expires_at

\* isPinExpired(expires_at): true for an empty text; else the text is read back with
\* mktime, that is as local time, tz ahead of UTC, and compared with now
IsPinExpired(expires_at, now, tz) ==
    IF expires_at = NoTime THEN TRUE ELSE now >= expires_at[1] - tz

\* startPairing: "Check if already paired"
AlreadyPairedNever(device) == FALSE
AlreadyPaired(device) == device.client_token # ""

\* POST /api/devices
CreateDevice(d, ip, key) ==
    /\ ~deviceRow[d].exists
    /\ deviceRow' = [deviceRow EXCEPT ![d] = [exists |-> TRUE, ip_address |-> ip,
                                              api_key |-> key, client_token |-> "",
                                              pin_code |-> "", pin_expires_at |-> NoTime,
                                              status |-> "offline"]]
    /\ lastCmd' = NoCmd
    /\ lastPair' = NoPair
    /\ UNCHANGED <<clients_cache_, mqtt_clients_, pairing_clients_, deviceAwake, wnow>>
    /\ UNCHANGED othersOfClients

\* PUT /api/devices/{id}: DeviceRepository::updateDevice stores the address (not the
\* key or the token), then the HTTP command cache is invalidated
UpdateDevice(d, ip) ==
    /\ deviceRow[d].exists
    /\ deviceRow' = [deviceRow EXCEPT ![d].ip_address = ip]
    /\ clients_cache_' = InvalidateClient(clients_cache_, d)
    /\ lastCmd' = NoCmd
    /\ lastPair' = NoPair
    /\ UNCHANGED <<mqtt_clients_, pairing_clients_, deviceAwake, wnow>>
    /\ UNCHANGED othersOfClients

\* DELETE /api/devices/{id}
DeleteDevice(d) ==
    /\ deviceRow[d].exists
    /\ deviceRow' = [deviceRow EXCEPT ![d] = NoRow]
    /\ clients_cache_' = InvalidateClient(clients_cache_, d)
    /\ lastCmd' = NoCmd
    /\ lastPair' = NoPair
    /\ UNCHANGED <<mqtt_clients_, pairing_clients_, deviceAwake, wnow>>
    /\ UNCHANGED othersOfClients

\* POST /api/devices/{id}/pair/start, the device answering the display request with r:
\* 404 without a row, 409 if paired; else the pairing client is looked up (and cached)
\* and asked to display a PIN; the PIN the device reports is stored with its expiry,
\* status pairing
StartPairing(d, r) ==
    /\ LET device == ParseDeviceFromRow(deviceRow[d])
           found == deviceRow[d].exists
           pin == DisplayPin(r)
           outcome == IF ~found THEN "not_found"
                      ELSE IF AlreadyPaired(device) THEN "conflict"
                      ELSE IF pin = "" THEN "error"
                      ELSE "ok"
       IN /\ pairing_clients_' = IF outcome \in {"error", "ok"}
                                 THEN CacheAfterLookup(pairing_clients_, d)
                                 ELSE pairing_clients_
          /\ deviceRow' = IF outcome = "ok"
                          THEN [deviceRow EXCEPT ![d].pin_code = pin,
                                                 ![d].pin_expires_at =
                                                     <<wnow + PinLifetime>>,
                                                 ![d].status = "pairing"]
                          ELSE deviceRow
          /\ lastPair' = [NoPair EXCEPT !.op = "start", !.device = d, !.outcome = outcome,
                                        !.paired = (deviceRow[d].client_token # ""),
                                        !.sent = outcome \in {"error", "ok"},
                                        !.unchanged = (deviceRow' = deviceRow)]
    /\ lastCmd' = NoCmd
    /\ UNCHANGED <<clients_cache_, mqtt_clients_, deviceAwake, wnow>>
    /\ UNCHANGED othersOfClients

\* POST /api/devices/{id}/pair/verify with the PIN `entered`, the device answering a
\* verify request with r: 404 without a row, 400 without a PIN in progress, 410 (and
\* the PIN cleared, status offline) if isPinExpired, 401 on a different PIN; else
\* client->verifyPin: no token is a 500, a token is stored with status online, the PIN
\* cleared, and set on the pairing controller's own client
VerifyPairing(d, entered, r, tz) ==
    /\ LET row == deviceRow[d]
           device == ParseDeviceFromRow(row)
           client == LookupClient(pairing_clients_, d)
           verified == VerifyPin(client.client_token, r)
           outcome ==
               IF ~row.exists THEN "not_found"
               ELSE IF device.pin_code = "" THEN "no_pairing"
               ELSE IF IsPinExpired(ExpiresAtStr(device), wnow, tz) THEN "expired"
               ELSE IF device.pin_code # entered THEN "mismatch"
               ELSE IF verified.returned = "" THEN "error"
               ELSE "ok"
       IN /\ deviceRow' =
                CASE outcome = "expired" ->
                        [deviceRow EXCEPT ![d].pin_code = "",
                                          ![d].pin_expires_at = NoTime,
                                          ![d].status = "offline"]
                  [] outcome = "ok" ->
                        [deviceRow EXCEPT ![d].client_token = verified.returned,
                                          ![d].pin_code = "",
                                          ![d].pin_expires_at = NoTime,
                                          ![d].status = "online"]
                  [] OTHER -> deviceRow
          /\ pairing_clients_' =
                IF outcome \in {"error", "ok"}
                THEN [pairing_clients_ EXCEPT
                         ![d] = [client EXCEPT !.client_token = verified.client_token]]
                ELSE pairing_clients_
          /\ lastPair' = [op |-> "verify", device |-> d, outcome |-> outcome,
                          paired |-> (row.client_token # ""),
                          sent |-> outcome \in {"error", "ok"},
                          unchanged |-> (deviceRow' = deviceRow),
                          stored |-> (row.exists /\ row.pin_code # ""),
                          early |-> (row.pin_expires_at # NoTime
                                       /\ wnow < row.pin_expires_at[1]),
                          match |-> (row.pin_code = entered),
                          valid |-> AnsweredWithToken(r),
                          sentinel |-> (r.status_code = 200 /\ r.has_description
                                          /\ r.description = "OK")]
    /\ lastCmd' = NoCmd
    /\ UNCHANGED <<clients_cache_, mqtt_clients_, deviceAwake, wnow>>
    /\ UNCHANGED othersOfClients

\* POST /api/devices/{id}/pair/reset: token and PIN cleared, status offline, the pairing
\* controller's own client erased
ResetPairing(d) ==
    /\ deviceRow[d].exists
    /\ deviceRow' = [deviceRow EXCEPT ![d].client_token = "", ![d].pin_code = "",
                                      ![d].pin_expires_at = NoTime,
                                      ![d].status = "offline"]
    /\ pairing_clients_' = [pairing_clients_ EXCEPT ![d] = NoClient]
    /\ lastCmd' = NoCmd
    /\ lastPair' = NoPair
    /\ UNCHANGED <<clients_cache_, mqtt_clients_, deviceAwake, wnow>>
    /\ UNCHANGED othersOfClients

\* the requests LightningClient sends for a command of CommandController: one POST
HttpRequests(command) ==
    CASE command = "media" -> <<"media">>
      [] command = "volume" -> <<"navigation">>
      [] command = "app" -> <<"app">>
      [] command = "text" -> <<"text">>

\* CommandController::mediaControl / volumeControl / launchApp / sendText: the command
\* goes out through getClient(device_id)
HttpCommand(d, command) ==
    /\ clients_cache_' = CacheAfterLookup(clients_cache_, d)
    /\ lastCmd' = IF LookupClient(clients_cache_, d) = NoClient THEN NoCmd
                  ELSE [transport |-> "http", device |-> d, client |-> LookupClient(clients_cache_, d),
                        current |-> CurrentClient(d), command |-> command,
                        requests |-> HttpRequests(command),
                        asleep |-> ~deviceAwake[d]]
    /\ lastPair' = NoPair
    /\ UNCHANGED <<deviceRow, mqtt_clients_, pairing_clients_, deviceAwake, wnow>>
    /\ UNCHANGED othersOfClients

\* CommandController::navigate -> makeAsyncFireTVCall: address, key and token are read
\* from the stored row and the navigation POST is sent
HttpNavigate(d) ==
    /\ lastCmd' = IF ~deviceRow[d].exists THEN NoCmd
                  ELSE [transport |-> "http", device |-> d, client |-> ClientFor(deviceRow[d]),
                        current |-> CurrentClient(d), command |-> "navigate",
                        requests |-> <<"navigation">>, asleep |-> ~deviceAwake[d]]
    /\ lastPair' = NoPair
    /\ UNCHANGED <<deviceRow, clients_cache_, mqtt_clients_, pairing_clients_,
                   deviceAwake, wnow>>
    /\ UNCHANGED othersOfClients

\* CommandHandler::handleCommand, the routing: the requests sent to the device for a
\* command with a well-formed payload
MqttRequestsTurnOnChecked(command) ==
    IF command = "turn_on" THEN <<"check", "wake">> ELSE <<>>
MqttRequests(command) ==
    CASE command \in {"media_play", "media_pause"} -> <<"media">>
      [] command \in {"volume_up", "turn_off", "navigate"} -> <<"navigation">>
      [] command = "turn_on" -> <<"wake">>
      [] command = "launch_app" -> <<"app">>
      [] command = "send_text" -> <<"text">>
      [] OTHER -> <<>>

\* CommandHandler::handleCommand: the command goes out through
\* getClientForDevice(device_id); a device that receives a wake request may wake up;
\* at the end updateLastSeen(device_id, "online")
MqttCommand(d, command) ==
    /\ mqtt_clients_' = CacheAfterLookup(mqtt_clients_, d)
    /\ IF LookupClient(mqtt_clients_, d) = NoClient
       THEN /\ lastCmd' = NoCmd
            /\ UNCHANGED <<deviceRow, deviceAwake>>
       ELSE /\ lastCmd' = [transport |-> "mqtt", device |-> d, client |-> LookupClient(mqtt_clients_, d),
                           current |-> CurrentClient(d), command |-> command,
                           requests |-> MqttRequests(command),
                           asleep |-> ~deviceAwake[d]]
            /\ deviceRow' = IF deviceRow[d].exists
                            THEN [deviceRow EXCEPT ![d].status = "online"]
                            ELSE deviceRow
            /\ IF "wake" \in Range(MqttRequests(command))
               THEN \E up \in {TRUE, deviceAwake[d]} :
                       deviceAwake' = [deviceAwake EXCEPT ![d] = up]
               ELSE UNCHANGED deviceAwake
    /\ lastPair' = NoPair
    /\ UNCHANGED <<clients_cache_, pairing_clients_, wnow>>
    /\ UNCHANGED othersOfClients

\* the entry of the HTTP command cache expires (ttl) or is evicted (capacity)
CacheEntryDropped(d) ==
    /\ clients_cache_[d] # NoClient
    /\ clients_cache_' = [clients_cache_ EXCEPT ![d] = NoClient]
    /\ lastCmd' = NoCmd
    /\ lastPair' = NoPair
    /\ UNCHANGED <<deviceRow, mqtt_clients_, pairing_clients_, deviceAwake, wnow>>
    /\ UNCHANGED othersOfClients

\* the device goes to sleep (its Lightning API stops answering) or is woken by hand
DeviceSleepsOrWakes(d) ==
    /\ deviceAwake' = [deviceAwake EXCEPT ![d] = ~deviceAwake[d]]
    /\ lastCmd' = NoCmd
    /\ lastPair' = NoPair
    /\ UNCHANGED <<deviceRow, clients_cache_, mqtt_clients_, pairing_clients_, wnow>>
    /\ UNCHANGED othersOfClients

\* the system clock advances
WallTick ==
    /\ wnow < MaxWall
    /\ wnow' = wnow + 1
    /\ lastCmd' = NoCmd
    /\ lastPair' = NoPair
    /\ UNCHANGED <<deviceRow, clients_cache_, mqtt_clients_, pairing_clients_,
                   deviceAwake>>
    /\ UNCHANGED othersOfClients

\* devices are stored, changed and deleted; commands arrive on both transports
ClientsNext ==
    \/ \E d \in Devices, ip \in Addresses, key \in ApiKeys : CreateDevice(d, ip, key)
    \/ \E d \in Devices, ip \in Addresses : UpdateDevice(d, ip)
    \/ \E d \in Devices : DeleteDevice(d)
    \/ \E d \in Devices, r \in Responses : StartPairing(d, r)
    \/ \E d \in Devices, entered \in Tokens, r \in Responses, tz \in TzOffsets :
          VerifyPairing(d, entered, r, tz)
    \/ \E d \in Devices : ResetPairing(d)
    \/ \E d \in Devices, command \in HttpCommands : HttpCommand(d, command)
    \/ \E d \in Devices : HttpNavigate(d)
    \/ \E d \in Devices, command \in MqttCommands : MqttCommand(d, command)
    \/ \E d \in Devices : CacheEntryDropped(d)

\* one stored device is paired, re-paired and unpaired while the clock runs
PairingNext ==
    \/ \E d \in Devices, ip \in Addresses, key \in ApiKeys : CreateDevice(d, ip, key)
    \/ \E d \in Devices : DeleteDevice(d)
    \/ \E d \in Devices, r \in Responses : StartPairing(d, r)
    \/ \E d \in Devices, entered \in Tokens, r \in Responses, tz \in TzOffsets :
          VerifyPairing(d, entered, r, tz)
    \/ \E d \in Devices : ResetPairing(d)
    \/ WallTick

\* commands are dispatched to a device that sleeps and wakes
DispatchNext ==
    \/ \E d \in Devices, ip \in Addresses, key \in ApiKeys : CreateDevice(d, ip, key)
    \/ \E d \in Devices, command \in HttpCommands : HttpCommand(d, command)
    \/ \E d \in Devices : HttpNavigate(d)
    \/ \E d \in Devices, command \in MqttCommands : MqttCommand(d, command)
    \/ \E d \in Devices : DeviceSleepsOrWakes(d)

(***************************************************************************)
(* Command history: the handlers' protocol call, logCommand and response   *)
(***************************************************************************)

\* the commands followed through the handlers: mediaControl (volumeControl, launchApp
\* and sendText have its shape) and navigate on HTTP, a routed and an unknown command
\* on MQTT
HistoryHttpCommands == {"media", "navigate"}
HistoryMqttCommands == {"media_play", "unknown"}

\* a command being handled: whether the protocol call was made and what it returned,
\* the calls of BackgroundLogger::enqueue made for it (entry: the task id, enqueued: the
\* value enqueue returned, running: running_ at that time), and the response delivered
NoDispatch == [transport |-> "none", command |-> "none", protocol |-> FALSE,
               success |-> FALSE, entries |-> 0, entry |-> 0, enqueued |-> FALSE,
               running |-> FALSE, afterCall |-> FALSE, responded |-> FALSE,
               response |-> FALSE]

\* no command yet, call_once not yet run
HistoryInit ==
    /\ logger_init_flag_ = FALSE
    /\ hPc = "idle"
    /\ cur = NoDispatch
    /\ lastDone = NoDispatch

HistoryQuiet == HistoryInit

\* response["success"] = result.success; the status is 200 or 500 accordingly
ResponseSuccessIfLogged(c) == c.success /\ c.enqueued
ResponseSuccess(c) == c.success

\* mediaControl ... sendText: client->send...Command returns; navigate: the completion
\* callback of makeAsyncFireTVCall is invoked with the result of the request
HttpProtocolCall(command, ok) ==
    /\ hPc = "idle"
    /\ nextId <= MaxTasks
    /\ cur' = [NoDispatch EXCEPT !.transport = "http", !.command = command,
                                 !.protocol = TRUE, !.success = ok]
    /\ hPc' = "log_init"
    /\ lastDone' = NoDispatch
    /\ UNCHANGED logger_init_flag_
    /\ UNCHANGED <<loggerVars, othersOfHistory>>

\* logCommand: initBackgroundLogger(): std::call_once(logger_init_flag_, start)
LogCommandInit ==
    /\ hPc = "log_init"
    /\ IF logger_init_flag_
       THEN UNCHANGED loggerVars
       ELSE StartThread
    /\ logger_init_flag_' = TRUE
    /\ hPc' = "log_enqueue"
    /\ UNCHANGED <<cur, lastDone>>
    /\ UNCHANGED othersOfHistory

\* logCommand: background_logger_.enqueue(task), the part under mutex_
LogCommandEnqueue ==
    /\ hPc = "log_enqueue"
    /\ EnqueueLocked("e1")
    /\ cur' = [cur EXCEPT !.entries = cur.entries + 1, !.entry = nextId,
                          !.enqueued = ~QueueFull(queue_, max_queue_size_),
                          !.running = running_, !.afterCall = cur.protocol]
    /\ hPc' = IF QueueFull(queue_, max_queue_size_) THEN "respond" ELSE "log_notify"
    /\ UNCHANGED <<logger_init_flag_, lastDone>>
    /\ UNCHANGED othersOfHistory

\* logCommand: enqueue notifies the worker and returns true
LogCommandNotify ==
    /\ hPc = "log_notify"
    /\ EnqueueUnlocked("e1")
    /\ hPc' = "respond"
    /\ UNCHANGED <<logger_init_flag_, cur, lastDone>>
    /\ UNCHANGED othersOfHistory

\* the handler builds the response from the protocol call's result and calls callback
HttpRespond ==
    /\ hPc = "respond"
    /\ lastDone' = [cur EXCEPT !.responded = TRUE, !.response = ResponseSuccess(cur)]
    /\ cur' = NoDispatch
    /\ hPc' = "idle"
    /\ UNCHANGED logger_init_flag_
    /\ UNCHANGED <<loggerVars, othersOfHistory>>

\* CommandHandler::handleCommand on the MQTT thread: the routed command's protocol call
\* is made, its result is printed, updateLastSeen; the handler returns nothing
MqttHandled(command, ok) ==
    /\ hPc = "idle"
    /\ lastDone' = [NoDispatch EXCEPT !.transport = "mqtt", !.command = command,
                                      !.protocol = (MqttRequests(command) # <<>>),
                                      !.success = (MqttRequests(command) # <<>> /\ ok)]
    /\ UNCHANGED <<logger_init_flag_, hPc, cur>>
    /\ UNCHANGED <<loggerVars, othersOfHistory>>

\* commands are handled while the worker writes history and the service may shut the
\* logger down (shutdownBackgroundLogger -> stop)
HistoryNext ==
    \/ \E command \in HistoryHttpCommands, ok \in BOOLEAN : HttpProtocolCall(command, ok)
    \/ LogCommandInit
    \/ LogCommandEnqueue
    \/ LogCommandNotify
    \/ HttpRespond
    \/ \E command \in HistoryMqttCommands, ok \in BOOLEAN : MqttHandled(command, ok)
    \/ StopBegin
    \/ StopNotify
    \/ StopJoin
    \/ WorkerStep
    \/ WorkerSpurious

(***************************************************************************)
(* Command routing: CommandHandler::handleCommand (MQTT) and               *)
(* CommandController::sendCommand (HTTP)                                   *)
(***************************************************************************)

\* the command names of the routing table and some that are not in it
RoutingTable == {"navigate", "media_play", "media_play_pause", "media_pause",
                 "media_stop", "media_next_track", "media_previous_track",
                 "volume_up", "volume_down", "volume_mute", "mute", "turn_on",
                 "turn_off", "launch_app", "select_source", "send_text",
                 "keyboard_input"}
UnknownNames == {"reboot", "media_rewind", "volume_max", ""}
CommandNames == RoutingTable \cup UnknownNames

\* command.find("media_") == 0, command.find("volume_") == 0
StartsWithMedia(name) ==
    name \in {"media_play", "media_play_pause", "media_pause", "media_stop",
              "media_next_track", "media_previous_track", "media_rewind"}
StartsWithVolume(name) ==
    name \in {"volume_up", "volume_down", "volume_mute", "volume_max"}

\* a parameter that the payload does not have
Absent == "absent"

\* the values a parameter takes
Directions == {Absent, "up", "sideways"}
Actions == {Absent, "select", "play", "volume_up"}
Packages == {Absent, "com.netflix.ninja"}
Sources == {Absent, "Netflix", "netflix", "Teletext"}
Texts == {Absent, "", "hello"}

\* a normalized command: name plus parameters
NormalizedCommands ==
    [name : CommandNames, direction : Directions, action : Actions,
     package : Packages, source : Sources, text : Texts]

\* a request to the device: POST endpoint?action=...[&direction=...], or the path or
\* body argument of the app and keyboard endpoints
Req(endpoint, action, arg) == [endpoint |-> endpoint, action |-> action, arg |-> arg]

\* what an intake did with a command
Rejected == [rejected |-> TRUE, requests |-> <<>>]
Sent(req) == [rejected |-> FALSE, requests |-> <<req>>]

\* LightningClient: the request of each call
SendMediaCommand(action, direction) ==
    Req("/v1/media", action, IF action = "scan" /\ direction # "" THEN direction ELSE "")
SendNavigationCommand(action) == Req("/v1/FireTV", action, "")
LaunchApp(package) == Req("/v1/FireTV/app", "", package)
SendKeyboardInput(text) == Req("/v1/FireTV/keyboard", "", text)
WakeDevice == Req("/apps/FireTVRemote", "", "")

\* std::transform(..., ::tolower) on the app names used
ToLower(name) == IF name = "Netflix" THEN "netflix" ELSE name

\* CommandHandler::app_packages_ (one of its entries)
AppPackages == [n \in {"Netflix"} |-> "com.netflix.ninja"]

\* getPackageForApp: exact match, then case-insensitive match, else ""
GetPackageForApp(app_name) ==
    IF app_name \in DOMAIN AppPackages THEN AppPackages[app_name]
    ELSE IF \E k \in DOMAIN AppPackages : ToLower(k) = ToLower(app_name)
         THEN AppPackages[CHOOSE k \in DOMAIN AppPackages :
                              ToLower(k) = ToLower(app_name)]
         ELSE ""

\* handleMediaCommand
HandleMediaCommand(name) ==
    CASE name \in {"media_play_pause", "media_play"} -> Sent(SendMediaCommand("play", ""))
      [] name \in {"media_pause", "media_stop"} -> Sent(SendMediaCommand("pause", ""))
      [] name = "media_next_track" -> Sent(SendMediaCommand("scan", "forward"))
      [] name = "media_previous_track" -> Sent(SendMediaCommand("scan", "back"))
      [] OTHER -> Rejected

\* handleVolumeCommand
HandleVolumeCommand(name) ==
    IF name \in {"volume_up", "volume_down", "volume_mute"}
    THEN Sent(SendNavigationCommand(name))
    ELSE Rejected

\* handlePowerCommand
HandlePowerCommand(name) ==
    IF name = "turn_on" THEN Sent(WakeDevice) ELSE Sent(SendNavigationCommand("sleep"))

\* handleNavigationCommand: direction first, then action
HandleNavigationCommand(c) ==
    IF c.direction # Absent
    THEN IF c.direction \in {"up", "down", "left", "right"}
         THEN Sent(SendNavigationCommand("dpad_" \o c.direction))
         ELSE Rejected
    ELSE IF c.action # Absent
         THEN IF c.action \in {"select", "home", "back", "menu"}
              THEN Sent(SendNavigationCommand(c.action))
              ELSE Rejected
         ELSE Rejected

\* handleAppLaunchCommand: package first, then source by name
HandleAppLaunchCommand(c) ==
    IF c.package # Absent THEN Sent(LaunchApp(c.package))
    ELSE IF c.source # Absent
         THEN IF GetPackageForApp(c.source) = "" THEN Rejected
              ELSE Sent(LaunchApp(GetPackageForApp(c.source)))
         ELSE Rejected

\* handleTextInputCommand
HandleTextInputCommand(c) ==
    IF c.text = Absent \/ c.text = "" THEN Rejected ELSE Sent(SendKeyboardInput(c.text))

\* handleCommand, the else branch: "Unknown command" is printed
UnknownCommandForwarded(c) == Sent(SendNavigationCommand(c.name))
UnknownCommand(c) == Rejected

\* CommandHandler::handleCommand: the routing
HandleCommand(c) ==
    IF StartsWithMedia(c.name) THEN HandleMediaCommand(c.name)
    ELSE IF StartsWithVolume(c.name) THEN HandleVolumeCommand(c.name)
    ELSE IF c.name \in {"turn_on", "turn_off"} THEN HandlePowerCommand(c.name)
    ELSE IF c.name = "navigate" THEN HandleNavigationCommand(c)
    ELSE IF c.name \in {"select_source", "launch_app"} THEN HandleAppLaunchCommand(c)
    ELSE IF c.name \in {"send_text", "keyboard_input"} THEN HandleTextInputCommand(c)
    ELSE UnknownCommand(c)

\* CommandController::navigate: action first, then direction; bare directions become
\* dpad_*; the action is not checked further
Navigate(c) ==
    LET action == IF c.action # Absent THEN c.action ELSE c.direction
    IN IF action = Absent THEN Rejected
       ELSE IF action \in {"up", "down", "left", "right"}
            THEN Sent(SendNavigationCommand("dpad_" \o action))
            ELSE Sent(SendNavigationCommand(action))

\* CommandController::mediaControl / volumeControl / launchApp / sendText: the request is
\* built from a parameter of the body, 400 without it
MediaControl(c) ==
    IF c.action = Absent THEN Rejected ELSE Sent(SendMediaCommand(c.action, ""))
VolumeControl(c) ==
    IF c.action = Absent THEN Rejected ELSE Sent(SendNavigationCommand(c.action))
LaunchAppHandler(c) ==
    IF c.package = Absent THEN Rejected ELSE Sent(LaunchApp(c.package))
SendText(c) ==
    IF c.text = Absent THEN Rejected ELSE Sent(SendKeyboardInput(c.text))

\* CommandController::sendCommand: the routing
SendCommand(c) ==
    IF c.name = "navigate" THEN Navigate(c)
    ELSE IF c.name \in {"media_play", "media_pause"} THEN MediaControl(c)
    ELSE IF c.name \in {"volume_up", "volume_down", "mute"} THEN VolumeControl(c)
    ELSE IF c.name = "launch_app" THEN LaunchAppHandler(c)
    ELSE IF c.name = "send_text" THEN SendText(c)
    ELSE Rejected

NoRoute == [command |-> [name |-> "none"], mqtt |-> Rejected, http |-> Rejected]

\* some normalized command arrives
RoutingInit ==
    /\ routeCmd \in NormalizedCommands
    /\ lastRoute = NoRoute

RoutingQuiet ==
    /\ lastRoute = NoRoute
    /\ routeCmd = [name |-> "", direction |-> Absent, action |-> Absent,
                   package |-> Absent, source |-> Absent, text |-> Absent]

\* the command is handed to both intakes for a stored device
Dispatch ==
    /\ lastRoute = NoRoute
    /\ lastRoute' = [command |-> routeCmd, mqtt |-> HandleCommand(routeCmd),
                     http |-> SendCommand(routeCmd)]
    /\ UNCHANGED routeCmd
    /\ UNCHANGED othersOfRouting

RoutingNext == Dispatch


\* ---------------------------------------------------------------------------
\* MQTTClient: the broker connection, its subscriptions and the message callback
\* ---------------------------------------------------------------------------

\* device ids of the roster and of the topics
BridgeDevices == {"tv1", "tv2"}

\* a topic is the sequence of its levels
TopicPrefix == <<"maestro_hub", "colada">>
StatusTopic == <<"homeassistant", "status">>
ButtonTopic(d, a) == TopicPrefix \o <<d, a>>
DeviceFilter(d) == TopicPrefix \o <<d, "+">>

\* the last topic level of the messages that arrive
ButtonActions == {"dpad_up", "select", "play", "mute", "wake", "send_text", "bogus"}
StartsWithDpad == {"dpad_up"}
DpadDirection(a) == IF a = "dpad_up" THEN "up" ELSE a
MediaName(a) == IF a = "play" THEN "media_play" ELSE "media_pause"

\* payloads: the button tap, two plain texts, and one JSON document
JsonPlay == "{\"command\":\"media_play\"}"
Payloads == {"PRESS", "hello", "online", JsonPlay}
Topics == {ButtonTopic(d, a) : d \in BridgeDevices, a \in ButtonActions} \cup {StatusTopic}

\* the broker's filter matching: level by level, "+" matches any one level
Matches(filter, topic) ==
    /\ Len(filter) = Len(topic)
    /\ \A i \in 1..Len(filter) : filter[i] = "+" \/ filter[i] = topic[i]

\* the Json::Value handed to the command callback
Cmd(command, direction, action, text) ==
    [command |-> command, direction |-> direction, action |-> action, text |-> text]
NoCommand == Cmd("none", Absent, Absent, Absent)

\* the level after "maestro_hub/colada/", provided a "/" follows it
ExtractDeviceIdFixed(topic) == "tv1"
ExtractDeviceId(topic) ==
    IF Len(topic) >= 4 /\ SubSeq(topic, 1, 2) = TopicPrefix THEN topic[3] ELSE ""

\* what follows "maestro_hub/colada/<device_id>/"
ExtractAction(topic) == IF Len(topic) = 4 THEN topic[4] ELSE ""

\* Json::parseFromStream: only the JSON document parses
ParseJson(payload) ==
    IF payload = JsonPlay
    THEN [ok |-> TRUE, value |-> Cmd("media_play", Absent, Absent, Absent)]
    ELSE [ok |-> FALSE, value |-> NoCommand]

\* the command of a button tap; NoCommand for "Unknown button action"
ButtonCommand(action) ==
    IF action \in StartsWithDpad THEN Cmd("navigate", DpadDirection(action), Absent, Absent)
    ELSE IF action \in {"select", "home", "back", "menu"}
         THEN Cmd("navigate", Absent, action, Absent)
    ELSE IF action \in {"play", "pause"} THEN Cmd(MediaName(action), Absent, Absent, Absent)
    ELSE IF action \in {"volume_up", "volume_down", "mute"}
         THEN Cmd(action, Absent, Absent, Absent)
    ELSE IF action = "sleep" THEN Cmd("turn_off", Absent, Absent, Absent)
    ELSE IF action = "wake" THEN Cmd("turn_on", Absent, Absent, Absent)
    ELSE NoCommand

\* the payload built from topic and message; NoCommand when the message is dropped
BuildPayload(action, payload) ==
    IF action = "send_text" THEN Cmd("send_text", Absent, Absent, payload)
    ELSE IF payload = "PRESS" /\ action # "" THEN ButtonCommand(action)
    ELSE IF ParseJson(payload).ok THEN ParseJson(payload).value
    ELSE NoCommand

\* the callbacks called for a device: its own, else the wildcard's
CallbacksFor(device, callbacks) ==
    IF device \in callbacks THEN <<device>>
    ELSE IF "*" \in callbacks THEN <<"*">>
    ELSE <<>>

\* the command dispatches of onMessageArrived for a message without exact-match callback
CommandDispatches(topic, payload, callbacks) ==
    LET device == ExtractDeviceId(topic)
        built == BuildPayload(ExtractAction(topic), payload)
        called == CallbacksFor(device, callbacks)
    IN  IF device = "" \/ built = NoCommand THEN <<>>
        ELSE [i \in 1..Len(called) |-> [device |-> device, payload |-> built]]

Threads == {"main", "receive"}

NoMsg == [topic |-> <<>>, payload |-> "", dispatched |-> <<>>, exact |-> FALSE]

BridgeInit ==
    /\ connected_ = FALSE
    /\ libConnected = FALSE
    /\ subscribed = {}
    /\ command_callbacks_ = {}
    /\ topic_callbacks_ = {}
    /\ roster \in SUBSET BridgeDevices
    /\ threadPc = [t \in Threads |-> IF t = "main" THEN "start" ELSE "idle"]
    /\ todo = [t \in Threads |-> {}]
    /\ lastLink = "up"
    /\ lastMsg = NoMsg

BridgeQuiet ==
    /\ connected_ = FALSE
    /\ libConnected = FALSE
    /\ subscribed = {}
    /\ command_callbacks_ = {}
    /\ topic_callbacks_ = {}
    /\ roster = {}
    /\ threadPc = [t \in Threads |-> IF t = "main" THEN "start" ELSE "idle"]
    /\ todo = [t \in Threads |-> {}]
    /\ lastLink = "up"
    /\ lastMsg = NoMsg

IsConnected == connected_ /\ libConnected

\* main: connect() succeeds, then discovery is published for every stored device
BridgeConnect ==
    /\ threadPc["main"] = "start"
    /\ connected_' = TRUE
    /\ libConnected' = TRUE
    /\ threadPc' = [threadPc EXCEPT !["main"] = "publish"]
    /\ todo' = [todo EXCEPT !["main"] = roster]
    /\ UNCHANGED <<subscribed, command_callbacks_, topic_callbacks_, roster, lastLink, lastMsg>>
    /\ UNCHANGED othersOfBridge

\* publish() of a discovery message at QoS 1 by thread t: false when not connected,
\* otherwise the message is handed to the library and the thread waits on the token
Publish(t) ==
    /\ threadPc[t] = "publish"
    /\ \E d \in todo[t] : todo' = [todo EXCEPT ![t] = @ \ {d}]
    /\ threadPc' = [threadPc EXCEPT ![t] = IF IsConnected THEN "wait" ELSE "publish"]
    /\ UNCHANGED <<connected_, libConnected, subscribed, command_callbacks_,
                   topic_callbacks_, roster, lastLink, lastMsg>>
    /\ UNCHANGED othersOfBridge

\* the library's receive thread reads a PUBACK and completes the token of a waiting
\* publisher; it does so between callbacks, not while it is inside one
AckDelivered ==
    /\ libConnected
    /\ threadPc["receive"] = "idle"
    /\ \E t \in Threads :
         /\ threadPc[t] = "wait"
         /\ threadPc' = [threadPc EXCEPT ![t] = "publish"]
    /\ UNCHANGED <<connected_, libConnected, subscribed, command_callbacks_,
                   topic_callbacks_, roster, todo, lastLink, lastMsg>>
    /\ UNCHANGED othersOfBridge

\* main: registerTopicCallback("homeassistant/status", ...), once discovery is out
RegisterTopicCallback ==
    /\ threadPc["main"] = "publish"
    /\ todo["main"] = {}
    /\ topic_callbacks_' = topic_callbacks_ \cup {StatusTopic}
    /\ threadPc' = [threadPc EXCEPT !["main"] = "subscribe"]
    /\ UNCHANGED <<connected_, libConnected, subscribed, command_callbacks_, roster, todo,
                   lastLink, lastMsg>>
    /\ UNCHANGED othersOfBridge

\* main: subscribeToAllCommands(callback): one filter per stored device and the
\* status topic, in one batch; nothing at all when not connected or without devices
SubscribeToAllCommands ==
    /\ threadPc["main"] = "subscribe"
    /\ IF IsConnected /\ roster # {}
       THEN /\ command_callbacks_' = command_callbacks_ \cup {"*"}
            /\ subscribed' = subscribed \cup {DeviceFilter(d) : d \in roster}
                                        \cup {StatusTopic}
       ELSE UNCHANGED <<command_callbacks_, subscribed>>
    /\ threadPc' = [threadPc EXCEPT !["main"] = "running"]
    /\ UNCHANGED <<connected_, libConnected, topic_callbacks_, roster, todo, lastLink,
                   lastMsg>>
    /\ UNCHANGED othersOfBridge

\* POST /api/devices: the row is stored; the MQTT client is not involved
RosterCreate(d) ==
    /\ threadPc["main"] = "running"
    /\ d \notin roster
    /\ roster' = roster \cup {d}
    /\ lastMsg' = NoMsg
    /\ UNCHANGED <<connected_, libConnected, subscribed, command_callbacks_,
                   topic_callbacks_, threadPc, todo, lastLink>>
    /\ UNCHANGED othersOfBridge

\* DELETE /api/devices/{id}: the row is removed; the MQTT client is not involved
RosterDelete(d) ==
    /\ threadPc["main"] = "running"
    /\ d \in roster
    /\ roster' = roster \ {d}
    /\ lastMsg' = NoMsg
    /\ UNCHANGED <<connected_, libConnected, subscribed, command_callbacks_,
                   topic_callbacks_, threadPc, todo, lastLink>>
    /\ UNCHANGED othersOfBridge

\* onMessageArrived, on the receive thread, for a message the broker delivers because
\* a filter of the session matches its topic. An exact-match callback ends the
\* handling; the status callback republishes discovery on payload "online".
MessageArrived(topic, payload) ==
    /\ libConnected
    /\ threadPc["receive"] = "idle"
    /\ \E f \in subscribed : Matches(f, topic)
    /\ IF topic \in topic_callbacks_
       THEN /\ lastMsg' = [topic |-> topic, payload |-> payload, dispatched |-> <<>>,
                           exact |-> TRUE]
            /\ IF payload = "online"
               THEN /\ threadPc' = [threadPc EXCEPT !["receive"] = "publish"]
                    /\ todo' = [todo EXCEPT !["receive"] = roster]
               ELSE UNCHANGED <<threadPc, todo>>
       ELSE /\ lastMsg' = [topic |-> topic, payload |-> payload,
                           dispatched |-> CommandDispatches(topic, payload,
                                                            command_callbacks_),
                           exact |-> FALSE]
            /\ UNCHANGED <<threadPc, todo>>
    /\ UNCHANGED <<connected_, libConnected, subscribed, command_callbacks_,
                   topic_callbacks_, roster, lastLink>>
    /\ UNCHANGED othersOfBridge

\* the status callback has published for every device and returns
HandlerReturns ==
    /\ threadPc["receive"] = "publish"
    /\ todo["receive"] = {}
    /\ threadPc' = [threadPc EXCEPT !["receive"] = "idle"]
    /\ UNCHANGED <<connected_, libConnected, subscribed, command_callbacks_,
                   topic_callbacks_, roster, todo, lastLink, lastMsg>>
    /\ UNCHANGED othersOfBridge

\* the connection breaks and onConnectionLost runs; the session was clean, so the
\* broker forgets its filters; a pending token fails and its publish() returns false
ConnectionLost ==
    /\ libConnected
    /\ libConnected' = FALSE
    /\ connected_' = FALSE
    /\ subscribed' = {}
    /\ threadPc' = [t \in Threads |-> IF threadPc[t] = "wait" THEN "publish"
                                      ELSE threadPc[t]]
    /\ lastLink' = "lost"
    /\ lastMsg' = NoMsg
    /\ UNCHANGED <<command_callbacks_, topic_callbacks_, roster, todo>>
    /\ UNCHANGED othersOfBridge

\* the library's automatic reconnect (set_automatic_reconnect) succeeds
LibraryReconnects ==
    /\ threadPc["main"] # "start"
    /\ ~libConnected
    /\ libConnected' = TRUE
    /\ lastLink' = "reconnected"
    /\ UNCHANGED <<connected_, subscribed, command_callbacks_, topic_callbacks_, roster,
                   threadPc, todo, lastMsg>>
    /\ UNCHANGED othersOfBridge

BridgeNext ==
    \/ BridgeConnect
    \/ \E t \in Threads : Publish(t)
    \/ AckDelivered
    \/ RegisterTopicCallback
    \/ SubscribeToAllCommands
    \/ \E d \in BridgeDevices : RosterCreate(d)
    \/ \E d \in BridgeDevices : RosterDelete(d)
    \/ \E topic \in Topics, payload \in Payloads : MessageArrived(topic, payload)
    \/ HandlerReturns
    \/ ConnectionLost
    \/ LibraryReconnects

\* ---------------------------------------------------------------------------
\* DatabaseService: executeQuery, executeQueryParams, executeCommand
\* ---------------------------------------------------------------------------

MAX_RETRIES == 3
BACKOFF_MS == <<1000, 2000, 4000>>

DbFunctions == {"executeQuery", "executeQueryParams", "executeCommand"}

\* a pqxx::result: whether it has no rows, and what affected_rows() returns
DbResult(empty, affected) == [empty |-> empty, affected |-> affected]

\* pqxx::result{}: no rows, and affected_rows() of a result without data is 0
EmptyResult == DbResult(TRUE, 0)

\* what a statement that was executed returns: rows of a SELECT, or no rows and the
\* number of rows an INSERT, UPDATE or DELETE changed
ExecutedResults == {DbResult(FALSE, 0), DbResult(TRUE, 0), DbResult(TRUE, 1)}

NoDb == [fn |-> "none", tries |-> 0, executed |-> 0, sleeps |-> <<>>, failed |-> <<>>,
         returned |-> FALSE, result |-> EmptyResult, ret |-> FALSE]

DbInit ==
    /\ pool_ \in BOOLEAN
    /\ dbPc = "idle"
    /\ attempt = 0
    /\ dbHeld = 0
    /\ lastDb = NoDb

DbQuiet ==
    /\ pool_ = FALSE
    /\ dbPc = "idle"
    /\ attempt = 0
    /\ dbHeld = 0
    /\ lastDb = NoDb

\* executeCommand: return !result.empty() || result.affected_rows() >= 0
CommandSucceeded(result) == ~result.empty \/ result.affected >= 0

\* the value the caller gets: the result, and for executeCommand the bool made of it
Returned(call, result) ==
    [call EXCEPT !.returned = TRUE, !.result = result,
                 !.ret = IF call.fn = "executeCommand" THEN CommandSucceeded(result)
                         ELSE FALSE]

\* the call begins: without a pool it returns pqxx::result{} at once
DbCall(fn) ==
    /\ dbPc = "idle"
    /\ attempt' = 0
    /\ IF pool_
       THEN /\ lastDb' = [NoDb EXCEPT !.fn = fn]
            /\ dbPc' = "acquire"
       ELSE /\ lastDb' = Returned([NoDb EXCEPT !.fn = fn], EmptyResult)
            /\ dbPc' = "idle"
    /\ UNCHANGED <<pool_, dbHeld>>
    /\ UNCHANGED othersOfDb

\* auto conn = pool_->acquire(): a connection, or std::runtime_error
DbAcquire(ok) ==
    /\ dbPc = "acquire"
    /\ lastDb' = [lastDb EXCEPT !.tries = @ + 1,
                                !.failed = IF ok THEN @ ELSE Append(@, "acquire")]
    /\ dbHeld' = IF ok THEN dbHeld + 1 ELSE dbHeld
    /\ dbPc' = IF ok THEN "exec" ELSE "caught"
    /\ UNCHANGED <<pool_, attempt>>
    /\ UNCHANGED othersOfDb

\* txn.exec / exec_params and commit succeed: the result is returned and conn, leaving
\* its scope, goes back to the pool
DbExecReturns(result) ==
    /\ dbPc = "exec"
    /\ dbHeld' = dbHeld - 1
    /\ lastDb' = Returned([lastDb EXCEPT !.executed = @ + 1], result)
    /\ dbPc' = "idle"
    /\ UNCHANGED <<pool_, attempt>>
    /\ UNCHANGED othersOfDb

\* txn.exec or commit throws a std::exception: unwinding returns conn to the pool
DbExecThrows ==
    /\ dbPc = "exec"
    /\ dbHeld' = dbHeld - 1
    /\ dbPc' = "caught"
    /\ lastDb' = [lastDb EXCEPT !.failed = Append(@, "exec")]
    /\ UNCHANGED <<pool_, attempt>>
    /\ UNCHANGED othersOfDb

\* the sleeps of the catch block after a failed attempt
BackoffAlways(a) == <<BACKOFF_MS[a + 1]>>
Backoff(a) == IF a < MAX_RETRIES - 1 THEN <<BACKOFF_MS[a + 1]>> ELSE <<>>

\* catch (const std::exception&): sleep, ++attempt, and the loop test; after the last
\* attempt pqxx::result{} is returned
DbCaught ==
    /\ dbPc = "caught"
    /\ attempt' = attempt + 1
    /\ IF attempt + 1 < MAX_RETRIES
       THEN /\ lastDb' = [lastDb EXCEPT !.sleeps = @ \o Backoff(attempt)]
            /\ dbPc' = "acquire"
       ELSE /\ lastDb' = Returned([lastDb EXCEPT !.sleeps = @ \o Backoff(attempt)],
                                  EmptyResult)
            /\ dbPc' = "idle"
    /\ UNCHANGED <<pool_, dbHeld>>
    /\ UNCHANGED othersOfDb

DbNext ==
    \/ \E fn \in DbFunctions : DbCall(fn)
    \/ \E ok \in BOOLEAN : DbAcquire(ok)
    \/ \E result \in ExecutedResults : DbExecReturns(result)
    \/ DbExecThrows
    \/ DbCaught

\* ---------------------------------------------------------------------------
\* CommandController: the status each command endpoint answers with
\* ---------------------------------------------------------------------------

Endpoints == {"command", "navigate", "media", "volume", "app", "text"}

\* the "command" member of a body
BodyCommands == {Absent, "navigate", "media_play", "mute", "launch_app", "send_text", "reboot"}

\* a request body: whether it is a JSON object, its "command" and which members it has
Bodies ==
    {b \in [json : BOOLEAN, command : BodyCommands, action : BOOLEAN, direction : BOOLEAN,
            package : BOOLEAN, text : BOOLEAN] :
        ~b.json => (b.command = Absent /\ ~b.action /\ ~b.direction /\ ~b.package /\ ~b.text)}

\* a request: known: the device id is stored; ok: the device answers the protocol
\* request with a 2xx status
HttpRequestsIn == [endpoint : Endpoints, known : BOOLEAN, body : Bodies, ok : BOOLEAN]

\* what was answered: the status, and whether a protocol request went to a device
Answer(status, called) == [status |-> status, called |-> called]

\* navigate: the body is read first; the device is looked up by makeAsyncFireTVCall,
\* whose completion callback answers 200 or 500
NavigateStatus(r) ==
    IF ~r.body.json THEN Answer(400, FALSE)
    ELSE IF ~r.body.action /\ ~r.body.direction THEN Answer(400, FALSE)
    ELSE IF ~r.known THEN Answer(500, FALSE)
    ELSE Answer(IF r.ok THEN 200 ELSE 500, TRUE)

\* mediaControl, volumeControl, launchApp, sendText: getClient first, then the body and
\* its required member, then the protocol call
ClientStatus(r, member) ==
    IF ~r.known THEN Answer(404, FALSE)
    ELSE IF ~r.body.json \/ ~member THEN Answer(400, FALSE)
    ELSE Answer(IF r.ok THEN 200 ELSE 500, TRUE)

\* sendCommand: the body and its "command" are read, then the request is routed
SendCommandStatus(r) ==
    IF ~r.body.json THEN Answer(400, FALSE)
    ELSE IF r.body.command = Absent THEN Answer(400, FALSE)
    ELSE IF r.body.command = "navigate" THEN NavigateStatus(r)
    ELSE IF r.body.command \in {"media_play", "media_pause"}
         THEN ClientStatus(r, r.body.action)
    ELSE IF r.body.command \in {"volume_up", "volume_down", "mute"}
         THEN ClientStatus(r, r.body.action)
    ELSE IF r.body.command = "launch_app" THEN ClientStatus(r, r.body.package)
    ELSE IF r.body.command = "send_text" THEN ClientStatus(r, r.body.text)
    ELSE Answer(400, FALSE)

EndpointStatus(r) ==
    IF r.endpoint = "command" THEN SendCommandStatus(r)
    ELSE IF r.endpoint = "navigate" THEN NavigateStatus(r)
    ELSE IF r.endpoint = "media" THEN ClientStatus(r, r.body.action)
    ELSE IF r.endpoint = "volume" THEN ClientStatus(r, r.body.action)
    ELSE IF r.endpoint = "app" THEN ClientStatus(r, r.body.package)
    ELSE ClientStatus(r, r.body.text)

NoAnswer == [answered |-> FALSE, status |-> 0, called |-> FALSE]

EndpointInit ==
    /\ httpReq \in HttpRequestsIn
    /\ lastAnswer = NoAnswer

EndpointQuiet ==
    /\ httpReq = [endpoint |-> "command", known |-> FALSE, ok |-> FALSE,
                  body |-> [json |-> FALSE, command |-> Absent, action |-> FALSE,
                            direction |-> FALSE, package |-> FALSE, text |-> FALSE]]
    /\ lastAnswer = NoAnswer

\* the request is handled and answered
HandleRequest ==
    /\ ~lastAnswer.answered
    /\ lastAnswer' = [answered |-> TRUE, status |-> EndpointStatus(httpReq).status,
                      called |-> EndpointStatus(httpReq).called]
    /\ UNCHANGED httpReq
    /\ UNCHANGED othersOfEndpoint

EndpointNext == HandleRequest

(***************************************************************************)
(* BackgroundLogger::start() called from a second thread, statement by     *)
(* statement: start() takes no lock                                        *)
(***************************************************************************)

othersOfStarter == <<cacheVars, poolVars, clientVars, lightningVars, historyVars, routingVars,
                     bridgeVars, dbVars, endpointVars, seenVars, pairRaceVars>>

StarterInit ==
    /\ starterPc = "idle"
    /\ extraWorker = FALSE

StarterQuiet == StarterInit

\* the threads that run workerLoop at this moment
LiveWorkers ==
    (IF workerPc \in {"none", "exit", "terminated"} THEN 0 ELSE 1)
    + (IF extraWorker THEN 1 ELSE 0)

\* worker_thread_.joinable(): a thread was assigned and not joined yet
Joinable == workerPc # "none"

\* if (running_.load()) return;  -- the call goes on when it read false
StarterCheck ==
    /\ starterPc = "idle"
    /\ ~running_
    /\ starterPc' = "checked"
    /\ UNCHANGED <<extraWorker, loggerVars, othersOfStarter>>

\* running_ = true; then the right-hand side of the assignment: std::thread(&workerLoop, this)
\* is constructed and runs, before worker_thread_ is written
StarterSpawn ==
    /\ starterPc = "checked"
    /\ running_' = TRUE
    /\ IF Joinable
       THEN /\ extraWorker' = TRUE
            /\ starterPc' = "assign"
            /\ UNCHANGED <<workerPc, lastStop>>
       ELSE /\ workerPc' = "loop"
            /\ starterPc' = "idle"
            /\ lastStop' = NoStop
            /\ UNCHANGED extraWorker
    /\ UNCHANGED <<max_queue_size_, dropped_count_, queue_, mutex_, curTask, enqPc, ctlPc,
                   nextId, throwing, accepted, rejected, executed, lastEnq, atStop>>
    /\ UNCHANGED othersOfStarter

\* worker_thread_ = <the new thread>: move assignment to a joinable std::thread calls
\* std::terminate(), the process ends with all its threads
StarterAssign ==
    /\ starterPc = "assign"
    /\ starterPc' = "terminated"
    /\ ctlPc' = "terminated"
    /\ workerPc' = "terminated"
    /\ enqPc' = [e \in Enqueuers |-> "terminated"]
    /\ extraWorker' = FALSE
    /\ UNCHANGED <<max_queue_size_, running_, dropped_count_, queue_, mutex_, curTask,
                   nextId, throwing, accepted, rejected, executed, lastEnq, lastStop, atStop>>
    /\ UNCHANGED othersOfStarter

\* start() and stop() called by any threads, all steps interleaved
LoggerRaceNext ==
    \/ Start
    \/ StopBegin
    \/ StopNotify
    \/ StopJoin
    \/ \E e \in Enqueuers : Enqueue(e)
    \/ \E e \in Enqueuers : EnqueueNotify(e)
    \/ WorkerStep
    \/ WorkerSpurious
    \/ StarterCheck
    \/ StarterSpawn
    \/ StarterAssign

(***************************************************************************)
(* CommandHandler::handleCommand and the last-seen fields of the device    *)
(***************************************************************************)

othersOfSeen == <<loggerVars, cacheVars, poolVars, clientVars, lightningVars, historyVars,
                  routingVars, bridgeVars, dbVars, endpointVars, starterVars, pairRaceVars>>

\* the time of the record's last update and the time NOW() yields in the handler
SeenBefore == "earlier"
SeenNow == "now"

\* the payloads handled: a command with its parameters, or no "command" member at all
SeenCommands ==
    [name : CommandNames, direction : Directions, action : {Absent},
     package : Packages, source : {Absent}, text : Texts]

SeenInputs ==
    [hasCommand : BOOLEAN, cmd : SeenCommands, stored : BOOLEAN, deviceAccepts : BOOLEAN,
     dbWrites : BOOLEAN]

NoSeenRun == [ran |-> FALSE, routed |-> FALSE, succeeded |-> FALSE,
              before |-> [last_seen_at |-> SeenBefore, status |-> "offline"]]

SeenInit ==
    /\ seenIn \in SeenInputs
    /\ seenRow \in [last_seen_at : {SeenBefore}, status : {"offline", "online"}]
    /\ lastSeenRun = NoSeenRun

SeenQuiet ==
    /\ seenIn = [hasCommand |-> FALSE,
                 cmd |-> [name |-> "", direction |-> Absent, action |-> Absent,
                          package |-> Absent, source |-> Absent, text |-> Absent],
                 stored |-> FALSE, deviceAccepts |-> FALSE, dbWrites |-> FALSE]
    /\ seenRow = [last_seen_at |-> SeenBefore, status |-> "offline"]
    /\ lastSeenRun = NoSeenRun

\* DeviceRepository::updateLastSeen(device_id, status):
\* UPDATE fire_tv_devices SET last_seen_at = NOW(), status = '<status>' WHERE device_id = ...
UpdateLastSeen(row, status, written) ==
    IF written THEN [last_seen_at |-> SeenNow, status |-> status] ELSE row

\* handleCommand reaches its last statement unless it returned early: no "command"
\* member, or no client for the device
ReachesUpdate(in) == in.hasCommand /\ in.stored

\* CommandHandler::handleCommand(device_id, payload)
HandleCommandSeen ==
    /\ ~lastSeenRun.ran
    /\ lastSeenRun' = [ran |-> TRUE,
                       routed |-> seenIn.hasCommand /\ seenIn.stored
                                  /\ ~HandleCommand(seenIn.cmd).rejected,
                       succeeded |-> seenIn.hasCommand /\ seenIn.stored
                                     /\ ~HandleCommand(seenIn.cmd).rejected
                                     /\ seenIn.deviceAccepts,
                       before |-> seenRow]
    /\ seenRow' = IF ReachesUpdate(seenIn)
                  THEN UpdateLastSeen(seenRow, "online", seenIn.dbWrites)
                  ELSE seenRow
    /\ UNCHANGED seenIn
    /\ UNCHANGED othersOfSeen

SeenNext == HandleCommandSeen

(***************************************************************************)
(* startPairing on one server thread while other pairing requests for the  *)
(* same device are handled on others: its read of the record and its write *)
(* are separate statements, with the device's answer in between            *)
(***************************************************************************)

othersOfPairRace == <<loggerVars, cacheVars, poolVars, lightningVars, historyVars,
                      routingVars, bridgeVars, dbVars, endpointVars, starterVars, seenVars>>

\* no startPairing is between its read and its write; of one that is, the pin_code of
\* the Device it read (its token was empty, or it would have returned)
NotPending == "none"

PairRaceInit == pendingStart = [d \in Devices |-> NotPending]

PairRaceQuiet == PairRaceInit

\* startPairing: getDeviceById, the checks for a missing record and for a token pass
StartPairingRead(d) ==
    /\ pendingStart[d] = NotPending
    /\ deviceRow[d].exists
    /\ ~AlreadyPaired(ParseDeviceFromRow(deviceRow[d]))
    /\ pendingStart' = [pendingStart EXCEPT ![d] = ParseDeviceFromRow(deviceRow[d]).pin_code]
    /\ lastPair' = NoPair
    /\ lastCmd' = NoCmd
    /\ UNCHANGED <<deviceRow, clients_cache_, mqtt_clients_, pairing_clients_, deviceAwake,
                   wnow>>
    /\ UNCHANGED othersOfPairRace

\* UPDATE fire_tv_devices SET pin_code = $1, pin_expires_at = $2, status = 'pairing'
\* WHERE device_id = $3: no condition on client_token
StorePin(row, pin, expires) ==
    IF row.exists
    THEN [row EXCEPT !.pin_code = pin, !.pin_expires_at = <<expires>>, !.status = "pairing"]
    ELSE row

\* startPairing, the rest: getClient, displayPin answered with r, the PIN stored
StartPairingWrite(d, r) ==
    /\ pendingStart[d] # NotPending
    /\ pendingStart' = [pendingStart EXCEPT ![d] = NotPending]
    /\ pairing_clients_' = CacheAfterLookup(pairing_clients_, d)
    /\ deviceRow' = IF LookupClient(pairing_clients_, d) # NoClient /\ DisplayPin(r) # ""
                    THEN [deviceRow EXCEPT
                             ![d] = StorePin(deviceRow[d], DisplayPin(r), wnow + PinLifetime)]
                    ELSE deviceRow
    /\ lastPair' = [NoPair EXCEPT !.op = "start_write", !.device = d,
                                  !.outcome = IF LookupClient(pairing_clients_, d) = NoClient
                                                 \/ DisplayPin(r) = ""
                                              THEN "error" ELSE "ok",
                                  !.paired = (deviceRow[d].client_token # ""),
                                  !.stored = (deviceRow[d].pin_code # ""),
                                  !.sent = (LookupClient(pairing_clients_, d) # NoClient),
                                  !.unchanged = (deviceRow[d].exists
                                                   /\ deviceRow[d].client_token = ""
                                                   /\ deviceRow[d].pin_code
                                                        = pendingStart[d])]
    /\ lastCmd' = NoCmd
    /\ UNCHANGED <<clients_cache_, mqtt_clients_, deviceAwake, wnow>>
    /\ UNCHANGED othersOfPairRace

\* the pairing requests of PairingNext, and a startPairing in two steps
PairingRaceNext ==
    \/ \E d \in Devices, ip \in Addresses, key \in ApiKeys :
          CreateDevice(d, ip, key)
    \/ \E d \in Devices : DeleteDevice(d)
    \/ \E d \in Devices, r \in Responses : StartPairing(d, r)
    \/ \E d \in Devices, entered \in Tokens, r \in Responses, tz \in TzOffsets :
          VerifyPairing(d, entered, r, tz)
    \/ \E d \in Devices : ResetPairing(d)
    \/ WallTick
    \/ \E d \in Devices : StartPairingRead(d)
    \/ \E d \in Devices, r \in Responses : StartPairingWrite(d, r)
(***************************************************************************)
(* Specifications: one component runs, the others stay as constructed      *)
(***************************************************************************)

LoggerNext ==
    \/ Start
    \/ StopBegin
    \/ StopNotify
    \/ StopJoin
    \/ \E e \in Enqueuers : Enqueue(e)
    \/ \E e \in Enqueuers : EnqueueNotify(e)
    \/ WorkerStep
    \/ WorkerSpurious

\* only the BackgroundLogger is exercised; the other components stay as constructed
LoggerOnlyInit == LoggerInit /\ CacheQuiet /\ PoolQuiet /\ ClientsQuiet /\ LightningQuiet /\ HistoryQuiet /\ RoutingQuiet /\ BridgeQuiet /\ DbQuiet /\ EndpointQuiet /\ StarterQuiet /\ PairRaceQuiet /\ SeenQuiet

LoggerSpec == LoggerOnlyInit /\ [][LoggerNext]_vars

\* the scheduler runs every thread that can take a step; a spurious wakeup is never owed
LoggerFair ==
    /\ WF_vars(WorkerStep)
    /\ WF_vars(StopBegin \/ StopNotify \/ StopJoin)
    /\ \A e \in Enqueuers : WF_vars(EnqueueNotify(e))

LoggerLive == LoggerOnlyInit /\ [][LoggerNext]_vars /\ LoggerFair


LoggerRaceSpec == LoggerOnlyInit /\ [][LoggerRaceNext]_vars
\* only the LRUCache is exercised; the other components stay as constructed
CacheOnlyInit == CacheInit /\ LoggerQuiet /\ PoolQuiet /\ ClientsQuiet /\ LightningQuiet /\ HistoryQuiet /\ RoutingQuiet /\ BridgeQuiet /\ DbQuiet /\ EndpointQuiet /\ StarterQuiet /\ PairRaceQuiet /\ SeenQuiet

CacheSpec == CacheOnlyInit /\ [][CacheNext]_vars

\* only the ConnectionPool is exercised; the other components stay as constructed
PoolOnlyInit == PoolInit /\ LoggerQuiet /\ CacheQuiet /\ ClientsQuiet /\ LightningQuiet /\ HistoryQuiet /\ RoutingQuiet /\ BridgeQuiet /\ DbQuiet /\ EndpointQuiet /\ StarterQuiet /\ PairRaceQuiet /\ SeenQuiet

PoolSpec == PoolOnlyInit /\ [][PoolNext]_vars

\* the clock runs on and every caller that can leave its wait is scheduled; nobody owes
\* a release, a shutdown or a spurious wakeup
PoolFair ==
    /\ WF_vars(PoolTick)
    /\ \A t \in Callers : WF_vars(WaitTimeout(t))
    /\ \A t \in Callers : WF_vars(WaitReturn(t))

PoolLive == PoolOnlyInit /\ [][PoolNext]_vars /\ PoolFair

\* only one LightningClient is exercised
LightningOnlyInit == LightningInit /\ LoggerQuiet /\ CacheQuiet /\ PoolQuiet /\ ClientsQuiet /\ HistoryQuiet /\ RoutingQuiet /\ BridgeQuiet /\ DbQuiet /\ EndpointQuiet /\ StarterQuiet /\ PairRaceQuiet /\ SeenQuiet

LightningSpec == LightningOnlyInit /\ [][LightningNext]_vars

\* only the device handlers and the command transports are exercised
ClientsOnlyInit == ClientsInit /\ LoggerQuiet /\ CacheQuiet /\ PoolQuiet /\ LightningQuiet /\ HistoryQuiet /\ RoutingQuiet /\ BridgeQuiet /\ DbQuiet /\ EndpointQuiet /\ StarterQuiet /\ PairRaceQuiet /\ SeenQuiet

ClientsSpec == ClientsOnlyInit /\ [][ClientsNext]_vars

PairingSpec == ClientsOnlyInit /\ [][PairingNext]_vars

DispatchSpec == ClientsOnlyInit /\ [][DispatchNext]_vars


PairingRaceSpec == ClientsOnlyInit /\ [][PairingRaceNext]_vars
\* CommandController::background_logger_{1000}: one capacity, the logger not started
HistoryOnlyInit ==
    HistoryInit /\ LoggerInit /\ max_queue_size_ = MaxQueueSize /\ CacheQuiet /\ PoolQuiet
    /\ ClientsQuiet /\ LightningQuiet /\ RoutingQuiet /\ BridgeQuiet /\ DbQuiet /\ EndpointQuiet /\ StarterQuiet /\ PairRaceQuiet /\ SeenQuiet

HistorySpec == HistoryOnlyInit /\ [][HistoryNext]_vars


\* the scheduler runs the worker and every handler thread that can take a step; nobody
\* owes a command, a shutdown or a spurious wakeup
HistoryFair ==
    /\ WF_vars(WorkerStep)
    /\ WF_vars(LogCommandInit \/ LogCommandEnqueue \/ LogCommandNotify \/ HttpRespond)
    /\ WF_vars(StopNotify \/ StopJoin)

HistoryLive == HistoryOnlyInit /\ [][HistoryNext]_vars /\ HistoryFair
RoutingOnlyInit ==
    RoutingInit /\ LoggerQuiet /\ CacheQuiet /\ PoolQuiet /\ ClientsQuiet
    /\ LightningQuiet /\ HistoryQuiet /\ BridgeQuiet /\ DbQuiet /\ EndpointQuiet /\ StarterQuiet /\ PairRaceQuiet /\ SeenQuiet

RoutingSpec == RoutingOnlyInit /\ [][RoutingNext]_vars


BridgeOnlyInit ==
    BridgeInit /\ LoggerQuiet /\ CacheQuiet /\ PoolQuiet /\ ClientsQuiet
    /\ LightningQuiet /\ HistoryQuiet /\ RoutingQuiet /\ DbQuiet /\ EndpointQuiet /\ StarterQuiet /\ PairRaceQuiet /\ SeenQuiet

BridgeSpec == BridgeOnlyInit /\ [][BridgeNext]_vars

\* every thread that can take a step is scheduled and the receive thread reads what
\* the broker sent; nobody owes a connection loss, a reconnect or a message
BridgeFair ==
    /\ \A t \in Threads : WF_vars(Publish(t))
    /\ WF_vars(AckDelivered)
    /\ WF_vars(HandlerReturns)
    /\ WF_vars(RegisterTopicCallback)
    /\ WF_vars(SubscribeToAllCommands)

BridgeLive == BridgeOnlyInit /\ [][BridgeNext]_vars /\ BridgeFair

DbOnlyInit ==
    DbInit /\ LoggerQuiet /\ CacheQuiet /\ PoolQuiet /\ ClientsQuiet /\ LightningQuiet
    /\ HistoryQuiet /\ RoutingQuiet /\ BridgeQuiet /\ EndpointQuiet /\ StarterQuiet /\ PairRaceQuiet /\ SeenQuiet

DbSpec == DbOnlyInit /\ [][DbNext]_vars

EndpointOnlyInit ==
    EndpointInit /\ LoggerQuiet /\ CacheQuiet /\ PoolQuiet /\ ClientsQuiet /\ LightningQuiet
    /\ HistoryQuiet /\ RoutingQuiet /\ BridgeQuiet /\ DbQuiet /\ StarterQuiet /\ PairRaceQuiet /\ SeenQuiet

EndpointSpec == EndpointOnlyInit /\ [][EndpointNext]_vars

SeenOnlyInit ==
    SeenInit /\ LoggerQuiet /\ CacheQuiet /\ PoolQuiet /\ ClientsQuiet /\ LightningQuiet
    /\ HistoryQuiet /\ RoutingQuiet /\ BridgeQuiet /\ DbQuiet /\ EndpointQuiet /\ StarterQuiet /\ PairRaceQuiet

SeenSpec == SeenOnlyInit /\ [][SeenNext]_vars
(***************************************************************************)
(* BackgroundLogger: properties                                            *)
(***************************************************************************)

\* C1: enqueue called while the queue holds max_queue_size_ tasks (or more) returns
\* false, adds exactly 1 to dropped_count_ and leaves the queue as it was; a task
\* rejected this way is never queued, never run by the worker, not even during stop().
C1_FullQueueRejects ==
    /\ (lastEnq.id # 0 /\ lastEnq.lenBefore >= max_queue_size_) =>
          /\ lastEnq.result = FALSE
          /\ lastEnq.dropDelta = 1
          /\ lastEnq.queueSame
    /\ \A t \in rejected :
          /\ t \notin Range(queue_)
          /\ t \notin Range(executed)
          /\ t # curTask

\* a task was rejected by a queue of capacity >= 1 that was full, a task accepted later
\* was covered by a stop() that has returned, and everything accepted has been run
C1_Witness ==
    /\ max_queue_size_ >= 1
    /\ lastStop.kind = "joined"
    /\ \E r \in rejected : \E a \in lastStop.covered : a > r
    /\ Range(executed) = Range(accepted)

C3_ExecutionInAcceptanceOrder ==
    /\ Len(executed) <= Len(accepted)
    /\ \A i \in 1..Len(executed) : executed[i] = accepted[i]
    /\ curTask # 0 =>
          /\ Len(executed) < Len(accepted)
          /\ curTask = accepted[Len(executed) + 1]

\* two threads have pushed concurrently (both still owe their notify) while the worker
\* is running a task after having finished an earlier one
C3_Witness ==
    /\ \A e \in Enqueuers : enqPc[e] = "notify"
    /\ Len(executed) >= 1
    /\ curTask # 0

\* C4: a throwing task does not stop the worker: the worker thread ends only after
\* stop() cleared running_, and a task that is queued on a running logger once a
\* throwing task has been run is run as well.
C4_ThrowingTaskDoesNotStopWorker ==
    /\ [](workerPc = "exit" => ~running_)
    /\ \A u \in 1..MaxTasks :
          ((running_ /\ u \in Range(queue_) /\ (throwing \cap Range(executed)) # {})
              ~> (u \in Range(executed)))

\* a throwing task was run and tasks accepted behind it were run after it
C4_Witness ==
    /\ Len(executed) >= 2
    /\ executed[1] \in throwing
    /\ running_

\* C35: a stop() that found the logger running eventually returns: whatever the
\* interleaving of its flag write and notification with the worker's predicate check
\* and wait, and with enqueue calls, the worker sees the request and exits.
C35_StopReturns == (ctlPc = "stop_notify") ~> (ctlPc = "idle")

\* C36: at any time at most one worker thread consumes the queue, whatever the sequence
\* and interleaving of start() and stop() calls.
C36_AtMostOneWorker == LiveWorkers <= 1

(***************************************************************************)
(* LRUCache: properties                                                    *)
(***************************************************************************)

\* C5: after any sequence of get, put, remove, clear and cleanupExpired calls, for every
\* configured capacity, the number of stored entries never exceeds max_size_.
C5_SizeWithinCapacity ==
    Cardinality(DOMAIN cache_map_) <= max_size_

\* the present key whose most recent successful get or put is the oldest
LeastRecentlyUsed ==
    LET present == SelectSeq(recency, LAMBDA x : x \in DOMAIN cache_map_)
    IN  IF present = <<>> THEN "none" ELSE present[Len(present)]

C7_ExpiredEntryIsAbsent ==
    (lastOp.op \in {"get", "contains"} /\ lastOp.late) =>
        /\ ~lastOp.hit
        /\ lastOp.op = "get" => ~lastOp.keptAfter

\* a get found an entry past its expiry that had been hit by get since its last put
C7_Witness ==
    /\ lastOp.op = "get"
    /\ lastOp.late
    /\ lastOp.hadHits
    /\ ~lastOp.hit
    /\ ttl_ >= 1


(***************************************************************************)
(* ConnectionPool properties                                               *)
(***************************************************************************)

Ended == lastAcq.outcome # "none"

C10_HandedOutConnectionIsOpen ==
    /\ lastAcq.outcome = "connection" =>
          /\ lastAcq.open
          /\ acqPc[lastAcq.caller] = "holding"
          /\ held[lastAcq.caller] # 0
          /\ connOpen[held[lastAcq.caller]]
    /\ lastAcq.outcome = "connect_error" =>
          /\ acqPc[lastAcq.caller] = "idle"
          /\ held[lastAcq.caller] = 0

\* a connection that came back broken was found closed at checkout and handed out
\* re-opened
C10_Witness ==
    /\ lastAcq.outcome = "connection"
    /\ lastAcq.reopened
    /\ connOpen[held[lastAcq.caller]]


\* the connections some caller holds
Lent == {held[t] : t \in {u \in Callers : held[u] # 0}}

\* C11: a connection handed out is given back exactly once when the caller's scope
\* ends, by return or by exception: it is held by one caller only and idle nowhere while
\* lent; a caller outside a scope holds nothing; the released connection re-enters the
\* idle set (once) if the pool is open, and is closed and not idle if it is shut down.
C11_ReleasedExactlyOnce ==
    /\ \A t \in Callers : (held[t] # 0) <=> (acqPc[t] = "holding")
    /\ \A t, u \in Callers : (t # u /\ held[t] # 0) => held[t] # held[u]
    /\ Lent \cap Range(available_connections_) = {}
    /\ \A i, j \in DOMAIN available_connections_ :
          i # j => available_connections_[i] # available_connections_[j]
    /\ lastRel.caller # "none" =>
          /\ held[lastRel.caller] = 0
          /\ lastRel.conn \notin Lent
          /\ IF lastRel.shutdown
             THEN /\ lastRel.conn \notin Range(available_connections_)
                  /\ ~connOpen[lastRel.conn]
             ELSE Cardinality({i \in DOMAIN available_connections_ :
                                  available_connections_[i] = lastRel.conn}) = 1

\* a query threw after the pool was shut down under it: its connection was given back
\* and closed, while another caller still holds one
C11_Witness ==
    /\ lastRel.path = "threw"
    /\ lastRel.shutdown
    /\ ~connOpen[lastRel.conn]
    /\ \E t \in Callers : acqPc[t] = "holding"


\* C12 as stated: after shutdown() every acquire that ends, that of a caller blocked at
\* the shutdown included, ends with the shutting-down error.
C12_AfterShutdownOnlyShutdownError ==
    (shutdown_ /\ Ended) => lastAcq.outcome = "shutting_down"

\* C12, amended: after shutdown() no caller stays blocked in wait_until (all are woken)
\* and each woken caller ends without a connection, with the shutting-down error, or
\* with the pool-timeout error if its deadline has passed by the time it runs again; a
\* later acquire fails with the shutting-down error at once; nobody is handed a
\* connection; the idle set is empty and stays empty; a connection returned is closed.
C12_ShutdownWakesAndFailsCallers ==
    /\ [](shutdown_ => \A t \in Callers : acqPc[t] # "waiting")
    /\ \A t \in Callers : (shutdown_ /\ acqPc[t] = "woken") ~> (acqPc[t] = "idle")
    /\ []((shutdown_ /\ Ended) =>
            \/ lastAcq.outcome = "shutting_down"
            \/ lastAcq.outcome = "timeout" /\ lastAcq.waited
                                           /\ lastAcq.at >= lastAcq.deadline)
    /\ []((shutdown_ /\ Ended /\ ~lastAcq.waited) => lastAcq.outcome = "shutting_down")
    /\ [][shutdown_ => \A t \in Callers :
                          acqPc'[t] = "holding" => acqPc[t] = "holding"]_vars
    /\ [](shutdown_ => available_connections_ = <<>>)
    /\ []((lastRel.caller # "none" /\ lastRel.shutdown) => ~connOpen[lastRel.conn])

\* a caller that was blocked in acquire failed with the shutting-down error before its
\* deadline
C12_Witness ==
    /\ shutdown_
    /\ lastAcq.outcome = "shutting_down"
    /\ lastAcq.waited
    /\ lastAcq.at < lastAcq.deadline


\* the number of connections the pool can still hand out: the idle ones and the lent
\* ones (which come back)
Capacity == Cardinality(Range(available_connections_) \cup Lent)

\* C13: the pool recovers from an outage: once the database is reachable (and the pool
\* is open), the number of connections the pool can hand out gets back to pool_size_,
\* unless the database goes away again or the pool is shut down first.
C13_CapacityRecovers ==
    (dbUp /\ ~shutdown_) ~> (Capacity = pool_size_ \/ ~dbUp \/ shutdown_)


\* C37: in every reachable state of the pool, under any interleaving of acquire, release
\* and shutdown: no connection is idle and lent at once, none is idle twice, none is lent
\* to two callers, and the idle and the lent ones together are at most pool_size_.
C37_IdleAndLentDisjointAndBounded ==
    /\ Range(available_connections_) \cap Lent = {}
    /\ Cardinality(Range(available_connections_)) = Len(available_connections_)
    /\ \A t, u \in Callers : (t # u /\ held[t] # 0) => held[t] # held[u]
    /\ Len(available_connections_) + Cardinality({t \in Callers : held[t] # 0}) <= pool_size_

\* one connection is lent, another came back by a release and is idle, the pool is full
C37_Witness ==
    /\ lastRel.caller # "none"
    /\ ~lastRel.shutdown
    /\ Lent # {}
    /\ lastRel.conn \in Range(available_connections_)
    /\ Len(available_connections_) + Cardinality(Lent) = pool_size_

\* a caller still holds a connection after shutdown() emptied the idle queue
C37_WitnessShutdown ==
    /\ shutdown_
    /\ Lent # {}
    /\ available_connections_ = <<>>

(***************************************************************************)
(* LightningClient properties                                              *)
(***************************************************************************)

Verified == lastVerify.response # NoResponse

\* C14: verifyPin stores the token in the client and returns it only when the device
\* answered 200 with a description that is non-empty and not "OK"; in every other
\* outcome it returns "", the client's token is unchanged and the pairing layer writes
\* no token to the device record; a token "" or "OK" is never stored.
C14_VerifyPinStoresOnlyValidToken ==
    /\ Verified =>
          IF AnsweredWithToken(lastVerify.response)
          THEN /\ lastVerify.returned = lastVerify.response.description
               /\ client_token_ = lastVerify.returned
               /\ lastVerify.stored = lastVerify.returned
          ELSE /\ lastVerify.returned = ""
               /\ client_token_ = lastVerify.before
               /\ lastVerify.stored = "none"
    /\ (Verified /\ client_token_ # lastVerify.before) => client_token_ \notin {"", "OK"}
    /\ lastVerify.stored \notin {"", "OK"}

\* a client holding a token was answered 200 with the sentinel "OK": it returned "" and
\* kept its token
C14_Witness ==
    /\ Verified
    /\ lastVerify.response.status_code = 200
    /\ lastVerify.response.has_description
    /\ lastVerify.response.description = "OK"
    /\ lastVerify.before \in Tokens
    /\ client_token_ = lastVerify.before


(***************************************************************************)
(* Cached Protocol Client properties                                       *)
(***************************************************************************)

\* C8: whatever device update, delete, pairing verification or pairing reset came
\* before it, a command on either transport goes out through a client that carries the
\* device's current address, API key and pairing token.
C8_CommandUsesCurrentClient ==
    lastCmd.transport # "none" => lastCmd.client = lastCmd.current


(***************************************************************************)
(* Pairing properties                                                      *)
(***************************************************************************)

\* the last request was a verifyPairing that met a stored PIN
VerifiedWithPin == lastPair.op = "verify" /\ lastPair.stored

\* C15: a verifyPairing that carries the stored PIN of an unpaired device before the
\* stored expiry, the device answering a valid token, leaves the device paired: token
\* stored, PIN and expiry cleared, status online.
C15_PairingCompletes ==
    (VerifiedWithPin /\ ~lastPair.paired /\ lastPair.early /\ lastPair.match
        /\ lastPair.valid)
    => /\ lastPair.outcome = "ok"
       /\ deviceRow[lastPair.device].client_token \in Tokens
       /\ deviceRow[lastPair.device].pin_code = ""
       /\ deviceRow[lastPair.device].pin_expires_at = NoTime
       /\ deviceRow[lastPair.device].status = "online"

\* C16: a verifyPairing that arrives at or after the stored expiry is answered expired,
\* clears PIN and expiry, leaves status offline and no token, and sends nothing to the
\* device; one that arrives before the expiry is never answered expired.
C16_ExpiredOnlyAfterExpiry ==
    /\ (VerifiedWithPin /\ ~lastPair.early)
       => /\ lastPair.outcome = "expired"
          /\ ~lastPair.sent
          /\ deviceRow[lastPair.device].pin_code = ""
          /\ deviceRow[lastPair.device].pin_expires_at = NoTime
          /\ deviceRow[lastPair.device].status = "offline"
          /\ deviceRow[lastPair.device].client_token = ""
    /\ (VerifiedWithPin /\ lastPair.early) => lastPair.outcome # "expired"

\* C17: startPairing on a device whose row carries a non-empty token is answered with a
\* conflict, sends nothing to the device and leaves the row as it was.
C17_StartOnPairedDeviceRejected ==
    (lastPair.op = "start" /\ lastPair.paired)
    => /\ lastPair.outcome = "conflict"
       /\ ~lastPair.sent
       /\ lastPair.unchanged

C17_Witness ==
    /\ lastPair.op = "start" /\ lastPair.paired /\ lastPair.outcome = "conflict"
    /\ deviceRow[lastPair.device].client_token \in Tokens
    /\ deviceRow[lastPair.device].status = "online"

\* C18: verifyPairing answers an expired PIN with expired, a different PIN (before the
\* expiry) with mismatch, leaving the row as it was, and the sentinel "OK" from the
\* device (stored PIN entered before the expiry) with invalid-token; never with the
\* generic failure.
C18_ViolationsHaveOwnOutcomes ==
    VerifiedWithPin
    => /\ ~lastPair.early => lastPair.outcome = "expired"
       /\ (lastPair.early /\ ~lastPair.match)
          => (lastPair.outcome = "mismatch" /\ lastPair.unchanged)
       /\ (lastPair.early /\ lastPair.match /\ lastPair.sentinel)
          => lastPair.outcome = "invalid_token"

(***************************************************************************)
(* Command dispatch properties                                             *)
(***************************************************************************)

\* the requests of s that are r, in order
RECURSIVE Only(_, _)
Only(s, r) ==
    IF s = <<>> THEN <<>>
    ELSE IF Head(s) = r THEN <<r>> \o Only(Tail(s), r) ELSE Only(Tail(s), r)

\* the requests that carry out a command
ProtocolRequests == {"navigation", "media", "app", "text"}

\* C19: a command other than turn_on dispatched to a sleeping device sends one
\* availability check, one wake call and one re-check, in that order, before anything
\* else; if the device is still asleep no protocol request is sent.
C19_WakeAndRecheckBeforeCommand ==
    (lastCmd.transport = "mqtt" /\ lastCmd.command # "turn_on" /\ lastCmd.asleep)
    => /\ Len(lastCmd.requests) >= 3
       /\ SubSeq(lastCmd.requests, 1, 3) = <<"check", "wake", "check">>
       /\ Len(Only(lastCmd.requests, "wake")) = 1
       /\ Len(Only(lastCmd.requests, "check")) = 2
       /\ ~deviceAwake[lastCmd.device]
          => Range(lastCmd.requests) \cap ProtocolRequests = {}

\* C20: a navigation command dispatched to a sleeping device sends availability check,
\* wake call and re-check before the navigation POST, on either transport.
C20_NavigationAfterWakeAndRecheck ==
    (lastCmd.transport # "none" /\ lastCmd.command = "navigate" /\ lastCmd.asleep)
    => \A i \in 1..Len(lastCmd.requests) :
          lastCmd.requests[i] = "navigation"
          => /\ i = 4
             /\ SubSeq(lastCmd.requests, 1, 3) = <<"check", "wake", "check">>

\* C21: turn_on dispatched by the command handler sends one wake call and nothing else,
\* whether the device answers or not.
C21_TurnOnOnlyWakes ==
    (lastCmd.transport = "mqtt" /\ lastCmd.command = "turn_on")
    => lastCmd.requests = <<"wake">>

\* turn_on was dispatched to a device that was asleep and stayed asleep
C21_Witness ==
    /\ lastCmd.transport = "mqtt" /\ lastCmd.command = "turn_on"
    /\ lastCmd.asleep /\ ~deviceAwake[lastCmd.device]
    /\ "wake" \in Range(lastCmd.requests)

\* the caches that hold a client for device d; each cache builds its own with
\* std::make_shared, so clients of different caches are different handles
HandlesOf(d) ==
    {c \in {"http", "mqtt", "pairing"} :
        \/ c = "http" /\ clients_cache_[d] # NoClient
        \/ c = "mqtt" /\ mqtt_clients_[d] # NoClient
        \/ c = "pairing" /\ pairing_clients_[d] # NoClient}

\* C34: at most one live protocol client handle exists per device id, so that commands
\* for one device, from any transport or controller, use the same handle.
C34_OneHandlePerDevice == \A d \in Devices : Cardinality(HandlesOf(d)) <= 1

C40_WitnessOverwrite ==
    /\ lastPair.op = "start_write"
    /\ lastPair.outcome = "ok"
    /\ lastPair.stored
(***************************************************************************)
(* Command history properties                                              *)
(***************************************************************************)

\* C22: an HTTP command's response carries the protocol call's success value whether
\* the history entry was queued or dropped, whether the logger was running or not and
\* whether the entry's database write fails; the handler never waits for that write:
\* the worker runs it without holding the mutex enqueue needs, and the response is
\* delivered while the entry is still unwritten.
C22_ResponseIndependentOfHistory ==
    /\ lastDone.responded => lastDone.response = lastDone.success
    /\ mutex_ => workerPc \in {"pred", "prewait", "drain"}
    /\ workerPc = "run" => ~mutex_

\* a successful command was answered with success although its entry was dropped ...
C22_WitnessDropped ==
    lastDone.responded /\ lastDone.success /\ lastDone.response /\ ~lastDone.enqueued

\* ... and another although the logger had been stopped and its entry is never written
C22_Witness ==
    /\ lastDone.responded /\ lastDone.success /\ lastDone.response
    /\ lastDone.enqueued /\ ~lastDone.running
    /\ lastDone.entry \notin Range(executed)
    /\ workerPc = "none"

\* C23: every handled command that made a protocol call, on HTTP or MQTT, has called
\* enqueue exactly once, after the protocol call returned.
C23_OneEntryPerProtocolCall ==
    (lastDone.transport # "none" /\ lastDone.protocol)
    => (lastDone.entries = 1 /\ lastDone.afterCall)

\* C39: every task for which enqueue returned true is eventually executed, and no task
\* is executed twice; also a task whose enqueue races with stop() and one that logCommand
\* enqueues after shutdownBackgroundLogger has returned.
C39_AcceptedExecutedExactlyOnce ==
    /\ \A id \in 1..MaxTasks : (id \in Range(accepted)) ~> (id \in Range(executed))
    /\ [](\A i, j \in 1..Len(executed) : executed[i] = executed[j] => i = j)
(***************************************************************************)
(* Command routing properties                                              *)
(***************************************************************************)

Routed == lastRoute.command.name # "none"

\* C24: a command whose name is not in the routing table is rejected by both intakes
\* and no request of any kind goes to the device.
C24_UnknownNamesContactNothing ==
    (Routed /\ lastRoute.command.name \notin RoutingTable)
    => /\ lastRoute.mqtt.rejected /\ lastRoute.mqtt.requests = <<>>
       /\ lastRoute.http.rejected /\ lastRoute.http.requests = <<>>

\* a name that shares the media_ prefix with routed names but is not one of them
C24_Witness ==
    /\ lastRoute.command.name = "media_rewind"
    /\ lastRoute.command.action = "play"
    /\ lastRoute.mqtt.rejected /\ lastRoute.http.rejected

\* the protocol call the routing table gives for a media or volume name
TableCall(name) ==
    CASE name \in {"media_play", "media_play_pause"} -> Req("/v1/media", "play", "")
      [] name \in {"media_pause", "media_stop"} -> Req("/v1/media", "pause", "")
      [] name = "media_next_track" -> Req("/v1/media", "scan", "forward")
      [] name = "media_previous_track" -> Req("/v1/media", "scan", "back")
      [] name \in {"volume_up", "volume_down", "volume_mute"} -> Req("/v1/FireTV", name, "")
      [] name = "mute" -> Req("/v1/FireTV", "mute", "")

\* C25: the dispatcher maps each media and volume name of the routing table to exactly
\* one protocol call: play, pause, scan forward, scan back, or a navigation-style action
\* for the volume names and mute (whatever action name it uses for them).
C25_MediaAndVolumeNamesMapped ==
    (Routed /\ lastRoute.command.name \in
        {"media_play", "media_play_pause", "media_pause", "media_stop",
         "media_next_track", "media_previous_track", "volume_up", "volume_down",
         "volume_mute", "mute"})
    => /\ ~lastRoute.mqtt.rejected
       /\ Len(lastRoute.mqtt.requests) = 1
       /\ lastRoute.mqtt.requests[1].endpoint =
             TableCall(lastRoute.command.name).endpoint
       /\ StartsWithMedia(lastRoute.command.name)
          => lastRoute.mqtt.requests[1] = TableCall(lastRoute.command.name)

\* C26: for every command of the routing table the two intakes either both reject it
\* or both send the same request.
C26_IntakesDispatchAlike ==
    (Routed /\ lastRoute.command.name \in RoutingTable)
    => \/ lastRoute.mqtt.rejected /\ lastRoute.http.rejected
       \/ /\ ~lastRoute.mqtt.rejected /\ ~lastRoute.http.rejected
          /\ lastRoute.mqtt.requests = lastRoute.http.requests

\* ---------------------------------------------------------------------------
\* Properties of the MQTT bridge
\* ---------------------------------------------------------------------------

\* the button actions onMessageArrived knows
KnownButtons ==
    {"dpad_up", "dpad_down", "dpad_left", "dpad_right", "select", "home", "back", "menu",
     "play", "pause", "volume_up", "volume_down", "mute", "sleep", "wake"}

IsButtonMessage == Len(lastMsg.topic) = 4 /\ SubSeq(lastMsg.topic, 1, 2) = TopicPrefix

\* C27: a PRESS on a known button action of <button-prefix>/<device_id>/<action> gives
\* exactly one command, for the device id of the topic; a payload other than PRESS
\* becomes the text of a command only on the send_text subtopic; and no message gives
\* more than one dispatch, or a dispatch for another device id than the topic's.
C27_OneCommandPerButtonMessage ==
    IsButtonMessage =>
        /\ (lastMsg.payload = "PRESS" /\ lastMsg.topic[4] \in KnownButtons)
              => (Len(lastMsg.dispatched) = 1 /\ lastMsg.dispatched[1].payload # NoCommand)
        /\ \A i \in 1..Len(lastMsg.dispatched) :
              (lastMsg.payload # "PRESS"
               /\ lastMsg.dispatched[i].payload.text = lastMsg.payload)
                  => lastMsg.topic[4] = "send_text"
        /\ Len(lastMsg.dispatched) <= 1
        /\ \A i \in 1..Len(lastMsg.dispatched) :
              lastMsg.dispatched[i].device = lastMsg.topic[3]

C27_Witness ==
    /\ lastMsg.topic = ButtonTopic("tv2", "dpad_up")
    /\ lastMsg.payload = "PRESS"
    /\ lastMsg.dispatched = <<[device |-> "tv2",
                               payload |-> Cmd("navigate", "up", Absent, Absent)]>>

C27_WitnessText ==
    /\ lastMsg.topic = ButtonTopic("tv2", "send_text")
    /\ lastMsg.payload = "hello"
    /\ lastMsg.dispatched = <<[device |-> "tv2",
                               payload |-> Cmd("send_text", Absent, Absent, "hello")]>>

\* the devices whose command topics the broker delivers to the bridge
SubscribedDevices == {d \in BridgeDevices : DeviceFilter(d) \in subscribed}

\* C28: once the bridge runs, and while its connection has never been lost, the
\* subscribed command topics are those of the current roster, so that a command for a
\* device created after startup reaches the dispatcher and one for a deleted device
\* does not.
C28_SubscriptionsFollowRoster ==
    (threadPc["main"] = "running" /\ lastLink = "up") => SubscribedDevices = roster

\* C29: after a connection loss and the library's automatic reconnect, isConnected()
\* is true again, and the command topics subscribed before are delivered again.
C29_ReconnectRestoresService ==
    lastLink = "reconnected" =>
        /\ IsConnected
        /\ command_callbacks_ # {} => SubscribedDevices # {}

\* C30: a handler run by onMessageArrived that publishes always completes.
C30_PublishingHandlerCompletes ==
    (threadPc["receive"] = "publish") ~> (threadPc["receive"] = "idle")

\* ---------------------------------------------------------------------------
\* Properties of DatabaseService
\* ---------------------------------------------------------------------------

IsPrefix(s, t) == Len(s) <= Len(t) /\ SubSeq(t, 1, Len(s)) = s

\* C31: executeQuery and executeQueryParams make at most 3 attempts and none after the
\* one that succeeds, sleep between attempts only, end by returning and never by an
\* exception, return an empty result
\* when every attempt failed or there is no pool, and hold no connection on return.
C31_BoundedRetryNoThrow ==
    /\ lastDb.tries <= 3
    /\ lastDb.executed <= 1
    /\ lastDb.executed = 1 => lastDb.returned
    /\ (dbPc = "idle" /\ lastDb.fn # "none") => lastDb.returned
    /\ IsPrefix(lastDb.sleeps, BACKOFF_MS)
    /\ Len(lastDb.sleeps) <= 2
    /\ (lastDb.fn # "none" /\ lastDb.returned) =>
          /\ Len(lastDb.sleeps) = (IF lastDb.tries = 0 THEN 0 ELSE lastDb.tries - 1)
          /\ lastDb.executed = 0 => lastDb.result = EmptyResult
          /\ lastDb.executed = 0 => (~pool_ \/ lastDb.tries = 3)
          /\ dbHeld = 0
          /\ dbPc = "idle"

C31_Witness ==
    /\ lastDb.fn = "executeQueryParams"
    /\ lastDb.returned
    /\ lastDb.tries = 3
    /\ lastDb.executed = 0
    /\ lastDb.sleeps = <<1000, 2000>>

C31_WitnessRecovered ==
    /\ lastDb.fn = "executeQuery"
    /\ lastDb.returned
    /\ lastDb.tries = 2
    /\ lastDb.executed = 1
    /\ lastDb.sleeps = <<1000>>

\* C32: executeCommand returns true when the command was executed and false when it
\* was not (every attempt failed, or no pool).
C32_CommandReportsFailure ==
    (lastDb.fn = "executeCommand" /\ lastDb.returned) => (lastDb.ret <=> lastDb.executed = 1)

\* ---------------------------------------------------------------------------
\* Properties of the HTTP command endpoints
\* ---------------------------------------------------------------------------

\* C33: every command endpoint answers 404 when the device id is unknown, 400 when the
\* body of a request for a known device is no JSON object, and a 5xx status only when
\* the protocol call to a known device was made and failed.
C33_StatusTellsTheCause ==
    lastAnswer.answered =>
        /\ ~httpReq.known => lastAnswer.status = 404
        /\ (httpReq.known /\ ~httpReq.body.json) => lastAnswer.status = 400
        /\ lastAnswer.status >= 500 => (httpReq.known /\ lastAnswer.called /\ ~httpReq.ok)

\* C38: handleCommand records the device as seen (last_seen_at set, status online) only
\* when the command was routed and its protocol call succeeded; an unknown command, a
\* rejected parameter or a failed protocol call leaves last_seen_at and status unchanged.
C38_SeenOnlyAfterSuccess ==
    (lastSeenRun.ran /\ ~lastSeenRun.succeeded) => seenRow = lastSeenRun.before
====
